---- MODULE Spec2Model ----
(***************************************************************************)
(* Model of the schedule hypergraph (crates/schedule_hypergraph,           *)
(* ScheduleGraph) and of the value types it consumes                       *)
(* (crates/scheduling_environment).                                        *)
(*                                                                         *)
(* Dates (chrono::NaiveDate) are integers counting days; a Period is the   *)
(* integer of its start date.  A node is a record [kind, key, people]:     *)
(* key is the technician id, work-order number, activity number, period    *)
(* start, skill discriminant or day; people is the activity's              *)
(* number_of_people (0 for the other kinds).  A hyperedge is a record      *)
(* [edge_type, time, nodes]; time is <<>> for every kind but               *)
(* Assign(Some((start, finish))), where it is <<start, finish>>.           *)
(***************************************************************************)
EXTENDS Integers, Sequences, FiniteSets, TLC

VARIABLES nodes, hyperedges, incidence_list,
          technician_indices, work_order_indices, period_indices,
          skill_indices, day_indices,
          aborted, last, caller, availabilities

vars == <<nodes, hyperedges, incidence_list, technician_indices,
          work_order_indices, period_indices, skill_indices, day_indices,
          aborted, last, caller, availabilities>>

graph_vars == <<nodes, hyperedges, incidence_list, technician_indices,
                work_order_indices, period_indices, skill_indices, day_indices>>

----------------------------------------------------------------------------
(* Program constants *)

\* enum Skill { MtnMech, MtnElec }: the derived Ord is the declaration order
MtnMech == 0
MtnElec == 1
Skills == {MtnMech, MtnElec}

\* add_period: (0..14) days per period
PeriodLength == 14

\* find_all_assignments_for_period: start_date + Duration::days(13), exclusive
FindWindowDays == 13

\* add_exclusion: start_date + Days::new(13), inclusive
ExcludeWindowDays == 13

----------------------------------------------------------------------------
(* Bounds of the model *)

\* the operations that only relate existing nodes (assignments, skill grants,
\* exclusions) are called while fewer than MaxRelations of their edges exist
MaxRelations == 2

\* WorkOrder::new is called with lists of at most MaxActivities activities
MaxActivities == 3

\* the availability windows start and end at the instants 0..MaxTime
MaxTime == 3

\* add_availability is called on builders of fewer than MaxAvailabilities windows
MaxAvailabilities == 3

----------------------------------------------------------------------------
(* Generic helpers *)

\* HashMap / BTreeMap insert
MapInsert(m, k, v) == [x \in (DOMAIN m) \cup {k} |-> IF x = k THEN v ELSE m[x]]

EmptyMap == <<>>

Min(S) == CHOOSE x \in S : \A y \in S : x <= y

RECURSIVE SortedSeq(_)
\* iteration order of a BTreeSet / BTreeMap keys: ascending
SortedSeq(S) == IF S = {} THEN <<>>
                ELSE LET m == Min(S) IN <<m>> \o SortedSeq(S \ {m})

Range(s) == {s[i] : i \in 1..Len(s)}

\* What a call gives back: Ok(v) for a handle, OkList(l) for a Vec of handles,
\* Err(e) for a ScheduleGraphErrors value, Panic when the call panicked.
Ok(v) == [tag |-> "Ok", val |-> v, list |-> <<>>, err |-> "None"]
OkList(l) == [tag |-> "Ok", val |-> -1, list |-> l, err |-> "None"]
Err(e) == [tag |-> "Err", val |-> -1, list |-> <<>>, err |-> e]
Panic == [tag |-> "Panic", val |-> -1, list |-> <<>>, err |-> "None"]

\* handles are 0-based in the program; sequences are 1-based here
At(s, h) == s[h + 1]

NoTime == <<>>

----------------------------------------------------------------------------
(* The graph as a value, so that a handler can be written as a function *)

Self == [nodes |-> nodes, hyperedges |-> hyperedges,
         incidence_list |-> incidence_list,
         technician_indices |-> technician_indices,
         work_order_indices |-> work_order_indices,
         period_indices |-> period_indices,
         skill_indices |-> skill_indices,
         day_indices |-> day_indices,
         aborted |-> aborted]

new == [nodes |-> <<>>, hyperedges |-> <<>>, incidence_list |-> <<>>,
        technician_indices |-> EmptyMap, work_order_indices |-> EmptyMap,
        period_indices |-> EmptyMap, skill_indices |-> EmptyMap,
        day_indices |-> EmptyMap, aborted |-> FALSE]

Node(kind, key) == [kind |-> kind, key |-> key, people |-> 0]
ActivityNode(activity_number, number_of_people) ==
    [kind |-> "Activity", key |-> activity_number, people |-> number_of_people]

node_count(G) == Len(G.nodes)
hyperedge_count(G) == Len(G.hyperedges)

----------------------------------------------------------------------------
(* Private methods *)

\* the index a node kind is keyed in ("None" for Activity)
IndexOf(G, kind) ==
    CASE kind = "Technician" -> G.technician_indices
      [] kind = "WorkOrder" -> G.work_order_indices
      [] kind = "Period" -> G.period_indices
      [] kind = "Skill" -> G.skill_indices
      [] kind = "Day" -> G.day_indices
      [] OTHER -> EmptyMap

WithIndex(G, kind, m) ==
    CASE kind = "Technician" -> [G EXCEPT !.technician_indices = m]
      [] kind = "WorkOrder" -> [G EXCEPT !.work_order_indices = m]
      [] kind = "Period" -> [G EXCEPT !.period_indices = m]
      [] kind = "Skill" -> [G EXCEPT !.skill_indices = m]
      [] kind = "Day" -> [G EXCEPT !.day_indices = m]
      [] OTHER -> G

\* add_node without the push on incidence_list
add_node_no_incidence(G, node) ==
    LET node_index == Len(G.nodes)
        indexed == node.kind # "Activity"
        none_checker_is_none == ~indexed \/ node.key \notin DOMAIN IndexOf(G, node.kind)
        G1 == IF indexed
              THEN WithIndex(G, node.kind, MapInsert(IndexOf(G, node.kind), node.key, node_index))
              ELSE G
    IN IF ~none_checker_is_none
       THEN [G1 EXCEPT !.aborted = TRUE]
       ELSE [G1 EXCEPT !.nodes = Append(@, node)]

\* add_node that replaces the index entry of a key already present and goes on
add_node_no_assert(G, node) ==
    LET node_index == Len(G.nodes)
        indexed == node.kind # "Activity"
        G1 == IF indexed
              THEN WithIndex(G, node.kind, MapInsert(IndexOf(G, node.kind), node.key, node_index))
              ELSE G
    IN [G1 EXCEPT !.incidence_list = Append(@, <<>>),
                  !.nodes = Append(@, node)]

\* add_node that puts the node at the front of the arena
add_node_prepend(G, node) ==
    LET node_index == Len(G.nodes)
        indexed == node.kind # "Activity"
        none_checker_is_none == ~indexed \/ node.key \notin DOMAIN IndexOf(G, node.kind)
        G1 == IF indexed
              THEN WithIndex(G, node.kind, MapInsert(IndexOf(G, node.kind), node.key, node_index))
              ELSE G
    IN IF ~none_checker_is_none
       THEN [G1 EXCEPT !.aborted = TRUE]
       ELSE [G1 EXCEPT !.incidence_list = Append(@, <<>>),
                       !.nodes = <<node>> \o @]

\* fn add_node(&mut self, node: Node) -> NodeIndex; the index returned is
\* Len(G.nodes) of the graph it is applied to.  The insert into the index is
\* done before the assert: a panicking call leaves the overwritten entry.
add_node(G, node) ==
    LET node_index == Len(G.nodes)
        indexed == node.kind # "Activity"
        none_checker_is_none == ~indexed \/ node.key \notin DOMAIN IndexOf(G, node.kind)
        G1 == IF indexed
              THEN WithIndex(G, node.kind, MapInsert(IndexOf(G, node.kind), node.key, node_index))
              ELSE G
    IN IF ~none_checker_is_none
       THEN [G1 EXCEPT !.aborted = TRUE]
       ELSE [G1 EXCEPT !.incidence_list = Append(@, <<>>),
                       !.nodes = Append(@, node)]

RECURSIVE PushIncidence(_, _, _)
\* for node_index in &nodes { self.incidence_list[*node_index].push(edge_index) }
PushIncidence(inc, ns, edge_index) ==
    IF ns = <<>> THEN inc
    ELSE PushIncidence([inc EXCEPT ![Head(ns) + 1] = Append(@, edge_index)],
                       Tail(ns), edge_index)

\* add_edge that records the edge for its first node only
add_edge_first_only(G, edge_type, time, ns) ==
    LET edge_index == Len(G.hyperedges)
    IN [G EXCEPT !.incidence_list = PushIncidence(@, SubSeq(ns, 1, 1), edge_index),
                 !.hyperedges = Append(@, [edge_type |-> edge_type, time |-> time, nodes |-> ns])]

\* add_edge that takes the edge's index after the push on hyperedges
add_edge_index_after_push(G, edge_type, time, ns) ==
    LET edge_index == Len(G.hyperedges) + 1
    IN [G EXCEPT !.incidence_list = PushIncidence(@, ns, edge_index),
                 !.hyperedges = Append(@, [edge_type |-> edge_type, time |-> time, nodes |-> ns])]

\* fn add_edge(&mut self, edge_type: EdgeType, nodes: Vec<NodeIndex>) -> EdgeIndex;
\* the index returned is Len(G.hyperedges) of the graph it is applied to
add_edge(G, edge_type, time, ns) ==
    LET edge_index == Len(G.hyperedges)
    IN [G EXCEPT !.incidence_list = PushIncidence(@, ns, edge_index),
                 !.hyperedges = Append(@, [edge_type |-> edge_type, time |-> time, nodes |-> ns])]

----------------------------------------------------------------------------
(* Public API to add nodes *)

Out(G, res) == [g |-> G, res |-> res]

\* add_skill without the lookup of the skill index
add_skill_no_lookup(G, skill) ==
    LET G1 == add_node(G, Node("Skill", skill))
    IN Out(G1, IF G1.aborted THEN Panic ELSE Ok(Len(G.nodes)))

\* pub fn add_skill(&mut self, skill: Skill) -> NodeIndex
add_skill(G, skill) ==
    IF skill \in DOMAIN G.skill_indices
    THEN Out(G, Ok(G.skill_indices[skill]))
    ELSE LET G1 == add_node(G, Node("Skill", skill))
         IN Out(G1, IF G1.aborted THEN Panic ELSE Ok(Len(G.nodes)))

\* impl WorkOrder: activities_relations
activities_relations(work_order) ==
    [i \in 1..Len(work_order.activities) |-> "FinishStart"]

RECURSIVE add_activities_from_first(_, _, _, _, _)
\* the loop of add_work_order with previous_activity_node set once, at the
\* first activity
add_activities_from_first(G, work_order, work_order_node_index, i, previous_activity_node) ==
    IF i > Len(work_order.activities) THEN Out(G, Ok(work_order_node_index))
    ELSE
      LET activity == work_order.activities[i]
          activity_node_index == Len(G.nodes)
          G1 == add_node(G, ActivityNode(activity.activity_number, activity.number_of_people))
          skill_node_index == G1.skill_indices[activity.skill]
          G2 == add_edge(G1, "Contains", NoTime, <<work_order_node_index, activity_node_index>>)
          G3 == add_edge(G2, "Requires", NoTime, <<activity_node_index, skill_node_index>>)
      IN IF i = 1
         THEN add_activities_from_first(G3, work_order, work_order_node_index, i + 1, activity_node_index)
         ELSE add_activities_from_first(
                  add_edge(G3, "FinishStart", NoTime, <<previous_activity_node, activity_node_index>>),
                  work_order, work_order_node_index, i + 1, previous_activity_node)

RECURSIVE add_activities_always_precedence(_, _, _, _, _)
\* the loop of add_work_order without the test activity_index != 0: the
\* first activity gets a precedence edge from the placeholder
add_activities_always_precedence(G, work_order, work_order_node_index, i, previous_activity_node) ==
    IF i > Len(work_order.activities) THEN Out(G, Ok(work_order_node_index))
    ELSE
      LET activity == work_order.activities[i]
          activity_node_index == Len(G.nodes)
          G1 == add_node(G, ActivityNode(activity.activity_number, activity.number_of_people))
          skill_node_index == G1.skill_indices[activity.skill]
          G2 == add_edge(G1, "Contains", NoTime, <<work_order_node_index, activity_node_index>>)
          G3 == add_edge(G2, "Requires", NoTime, <<activity_node_index, skill_node_index>>)
          G4 == [G3 EXCEPT !.hyperedges =
                     Append(@, [edge_type |-> "FinishStart", time |-> NoTime,
                                nodes |-> <<previous_activity_node, activity_node_index>>])]
      IN add_activities_always_precedence(G4, work_order, work_order_node_index, i + 1,
                                          activity_node_index)

RECURSIVE add_activities(_, _, _, _, _)
\* the for loop of add_work_order over activities().iter().enumerate();
\* i is activity_index + 1
add_activities(G, work_order, work_order_node_index, i, previous_activity_node) ==
    IF i > Len(work_order.activities) THEN Out(G, Ok(work_order_node_index))
    ELSE
      LET activity == work_order.activities[i]
          activity_node_index == Len(G.nodes)
          G1 == add_node(G, ActivityNode(activity.activity_number, activity.number_of_people))
      IN IF activity.skill \notin DOMAIN G1.skill_indices
         THEN Out(G1, Err("SkillMissing"))
         ELSE
           LET skill_node_index == G1.skill_indices[activity.skill]
               G2 == add_edge(G1, "Contains", NoTime, <<work_order_node_index, activity_node_index>>)
               G3 == add_edge(G2, "Requires", NoTime, <<activity_node_index, skill_node_index>>)
               relation == activities_relations(work_order)[i - 1]
           IN IF i = 1
              THEN add_activities(G3, work_order, work_order_node_index, i + 1, activity_node_index)
              ELSE IF relation \in {"StartStart", "FinishStart"}
              THEN add_activities(add_edge(G3, relation, NoTime, <<previous_activity_node, activity_node_index>>),
                                  work_order, work_order_node_index, i + 1, activity_node_index)
              ELSE Out([G3 EXCEPT !.aborted = TRUE], Panic)

\* add_work_order with the duplicate check first
add_work_order_duplicate_first(G, work_order) ==
    IF work_order.work_order_number \in DOMAIN G.work_order_indices
    THEN Out(G, Err("WorkOrderDuplicate"))
    ELSE IF ~(\A i \in 1..Len(work_order.activities) :
                 work_order.activities[i].skill \in DOMAIN G.skill_indices)
    THEN Out(G, Err("WorkOrderActivityMissingSkills"))
    ELSE IF work_order.basic_start_date \notin DOMAIN G.day_indices
    THEN Out(G, Err("DayMissing"))
    ELSE
      LET day_node_index == G.day_indices[work_order.basic_start_date]
          work_order_node_index == Len(G.nodes)
          G1 == add_node(G, Node("WorkOrder", work_order.work_order_number))
          G2 == add_edge(G1, "BasicStart", NoTime, <<work_order_node_index, day_node_index>>)
      IN add_activities(G2, work_order, work_order_node_index, 1, -1)

\* add_work_order that looks the basic-start day up before the skills
add_work_order_day_first(G, work_order) ==
    IF work_order.basic_start_date \notin DOMAIN G.day_indices
    THEN Out(G, Err("DayMissing"))
    ELSE IF ~(\A i \in 1..Len(work_order.activities) :
                 work_order.activities[i].skill \in DOMAIN G.skill_indices)
    THEN Out(G, Err("WorkOrderActivityMissingSkills"))
    ELSE add_work_order_duplicate_first(G, work_order)

\* add_work_order without the check of the activities' skills before the
\* first mutation
add_work_order_no_skill_check(G, work_order) ==
    IF work_order.basic_start_date \notin DOMAIN G.day_indices
    THEN Out(G, Err("DayMissing"))
    ELSE IF work_order.work_order_number \in DOMAIN G.work_order_indices
    THEN Out(G, Err("WorkOrderDuplicate"))
    ELSE
      LET day_node_index == G.day_indices[work_order.basic_start_date]
          work_order_node_index == Len(G.nodes)
          G1 == add_node(G, Node("WorkOrder", work_order.work_order_number))
          G2 == add_edge(G1, "BasicStart", NoTime, <<work_order_node_index, day_node_index>>)
          loop == add_activities(G2, work_order, work_order_node_index, 1, -1)
      IN IF loop.res.tag # "Ok" THEN loop
         ELSE Out([loop.g EXCEPT !.work_order_indices =
                       MapInsert(@, work_order.work_order_number, work_order_node_index)],
                  Ok(work_order_node_index))

\* pub fn add_work_order(&mut self, work_order: &WorkOrder) -> Result<NodeIndex, ScheduleGraphErrors>
add_work_order(G, work_order) ==
    IF ~(\A i \in 1..Len(work_order.activities) :
            \E all_skills \in DOMAIN G.skill_indices : all_skills = work_order.activities[i].skill)
    THEN Out(G, Err("WorkOrderActivityMissingSkills"))
    ELSE IF work_order.basic_start_date \notin DOMAIN G.day_indices
    THEN Out(G, Err("DayMissing"))
    ELSE IF work_order.work_order_number \in DOMAIN G.work_order_indices
    THEN Out(G, Err("WorkOrderDuplicate"))
    ELSE
      LET day_node_index == G.day_indices[work_order.basic_start_date]
          work_order_node_index == Len(G.nodes)
          G1 == add_node(G, Node("WorkOrder", work_order.work_order_number))
          G2 == add_edge(G1, "BasicStart", NoTime, <<work_order_node_index, day_node_index>>)
          loop == add_activities(G2, work_order, work_order_node_index, 1, -1)
      IN IF loop.res.tag # "Ok" THEN loop
         ELSE Out([loop.g EXCEPT !.work_order_indices =
                       MapInsert(@, work_order.work_order_number, work_order_node_index)],
                  Ok(work_order_node_index))

\* days_in_period one day short
days_in_period_short(period) == [e \in 1..(PeriodLength - 1) |-> period + (e - 1)]

\* (0..14).map(|e| period.start_date() + chrono::Days::new(e))
days_in_period(period) == [e \in 1..PeriodLength |-> period + (e - 1)]

RECURSIVE add_days(_, _)
\* the for loop of add_period over days_in_period
add_days(G, days) ==
    IF days = <<>> THEN G
    ELSE LET day == Head(days)
             day_node == Len(G.nodes)
             G1 == add_node(G, Node("Day", day))
         IN IF G1.aborted THEN G1
            ELSE add_days([G1 EXCEPT !.day_indices = MapInsert(@, day, day_node)], Tail(days))

\* add_period that returns a fault when a day of the period has a Day node
add_period_rejects_overlap(G, period) ==
    IF period \in DOMAIN G.period_indices
          \/ \E i \in 1..PeriodLength : days_in_period(period)[i] \in DOMAIN G.day_indices
    THEN Out(G, Err("PeriodDuplicate"))
    ELSE LET G1 == add_days(G, days_in_period(period))
             G2 == add_node(G1, Node("Period", period))
         IN Out(G2, Ok(Len(G1.nodes)))

\* pub fn add_period(&mut self, period: Period) -> Result<NodeIndex, ScheduleGraphErrors>
add_period(G, period) ==
    IF period \in DOMAIN G.period_indices
    THEN Out(G, Err("PeriodDuplicate"))
    ELSE LET G1 == add_days(G, days_in_period(period))
         IN IF G1.aborted THEN Out(G1, Panic)
            ELSE LET node_id == Len(G1.nodes)
                     G2 == add_node(G1, Node("Period", period))
                 IN IF G2.aborted THEN Out(G2, Panic)
                    ELSE Out([G2 EXCEPT !.period_indices = MapInsert(@, period, node_id)],
                             Ok(node_id))

RECURSIVE resolve_all(_, _, _)
\* a loop that looks every key of a list up in an index and stops with
\* Err(fault) at the first key that is absent; Ok(the handles) otherwise
resolve_all(index, keys, fault) ==
    IF keys = <<>> THEN OkList(<<>>)
    ELSE IF Head(keys) \notin DOMAIN index THEN Err(fault)
    ELSE LET rest == resolve_all(index, Tail(keys), fault)
         IN IF rest.tag # "Ok" THEN rest
            ELSE OkList(<<index[Head(keys)]>> \o rest.list)

\* availability_dates without the finish date
availability_dates_exclusive(availability) ==
    LET number_of_days == availability[2] - availability[1]
    IN [d \in 1..number_of_days |-> availability[1] + (d - 1)]

\* (0..=number_of_days).map(|d| availability.start_date() + Duration::days(d))
availability_dates(availability) ==
    LET number_of_days == availability[2] - availability[1]
    IN [d \in 1..(number_of_days + 1) |-> availability[1] + (d - 1)]

\* add_technician that looks the days up before the skills
add_technician_days_first(G, technician, availability) ==
    IF technician.id \in DOMAIN G.technician_indices
    THEN Out(G, Err("WorkerDuplicate"))
    ELSE
      LET skills == resolve_all(G.skill_indices, SortedSeq(technician.skills), "SkillMissing")
          single_availability == resolve_all(G.day_indices, availability_dates(availability), "DayMissing")
      IN IF single_availability.tag # "Ok" THEN Out(G, single_availability)
         ELSE IF skills.tag # "Ok" THEN Out(G, skills)
         ELSE
           LET technician_id == Len(G.nodes)
               G1 == add_node(G, Node("Technician", technician.id))
               edges == <<technician_id>> \o skills.list \o single_availability.list
               availability_edge == Len(G1.hyperedges)
           IN IF G1.aborted THEN Out(G1, Panic)
              ELSE Out(add_edge(G1, "Available", NoTime, edges), Ok(availability_edge))

\* add_technician that creates the Technician node before it looks the days up
add_technician_node_first(G, technician, availability) ==
    IF technician.id \in DOMAIN G.technician_indices
    THEN Out(G, Err("WorkerDuplicate"))
    ELSE
      LET skills == resolve_all(G.skill_indices, SortedSeq(technician.skills), "SkillMissing")
          single_availability == resolve_all(G.day_indices, availability_dates(availability), "DayMissing")
          technician_id == Len(G.nodes)
          G1 == add_node(G, Node("Technician", technician.id))
      IN IF skills.tag # "Ok" THEN Out(G, skills)
         ELSE IF single_availability.tag # "Ok" THEN Out(G1, single_availability)
         ELSE Out(add_edge(G1, "Available", NoTime,
                           <<technician_id>> \o skills.list \o single_availability.list),
                  Ok(Len(G1.hyperedges)))

\* add_technician that records the skills and the days in two Available edges
add_technician_two_edges(G, technician, availability) ==
    IF technician.id \in DOMAIN G.technician_indices
    THEN Out(G, Err("WorkerDuplicate"))
    ELSE
      LET skills == resolve_all(G.skill_indices, SortedSeq(technician.skills), "SkillMissing")
          single_availability == resolve_all(G.day_indices, availability_dates(availability), "DayMissing")
          technician_id == Len(G.nodes)
          G1 == add_node(G, Node("Technician", technician.id))
          G2 == add_edge(G1, "Available", NoTime, <<technician_id>> \o skills.list)
      IN IF skills.tag # "Ok" THEN Out(G, skills)
         ELSE IF single_availability.tag # "Ok" THEN Out(G, single_availability)
         ELSE Out(add_edge(G2, "Available", NoTime,
                           <<technician_id>> \o single_availability.list),
                  Ok(Len(G2.hyperedges)))

\* pub fn add_technician(&mut self, technician: Technician, availability: Availability)
\*     -> Result<NodeIndex, ScheduleGraphErrors>
add_technician(G, technician, availability) ==
    IF technician.id \in DOMAIN G.technician_indices
    THEN Out(G, Err("WorkerDuplicate"))
    ELSE
      LET skills == resolve_all(G.skill_indices, SortedSeq(technician.skills), "SkillMissing")
          single_availability == resolve_all(G.day_indices, availability_dates(availability), "DayMissing")
      IN IF skills.tag # "Ok" THEN Out(G, skills)
         ELSE IF single_availability.tag # "Ok" THEN Out(G, single_availability)
         ELSE
           LET technician_id == Len(G.nodes)
               G1 == add_node(G, Node("Technician", technician.id))
               edges == <<technician_id>> \o skills.list \o single_availability.list
               availability_edge == Len(G1.hyperedges)
           IN IF G1.aborted THEN Out(G1, Panic)
              ELSE Out(add_edge(G1, "Available", NoTime, edges), Ok(availability_edge))

----------------------------------------------------------------------------
(* Public API to add hyperedges *)

\* add_assignment_work_order that looks the period up first
add_assignment_work_order_period_first(G, worker, work_order, date) ==
    IF date \notin DOMAIN G.period_indices THEN Out(G, Err("PeriodMissing"))
    ELSE IF worker \notin DOMAIN G.technician_indices THEN Out(G, Err("WorkerMissing"))
    ELSE IF work_order \notin DOMAIN G.work_order_indices THEN Out(G, Err("WorkOrderMissing"))
    ELSE
      LET hyperedge == [edge_type |-> "Assign", time |-> NoTime,
                        nodes |-> <<G.technician_indices[worker],
                                    G.work_order_indices[work_order],
                                    G.period_indices[date]>>]
          G1 == [G EXCEPT !.hyperedges = Append(@, hyperedge)]
      IN Out(G1, Ok(Len(G1.hyperedges) - 1))

\* pub fn add_assignment_work_order(&mut self, worker, work_order, date: Period)
\*     -> Result<EdgeIndex, ScheduleGraphErrors>
\* the hyperedge is pushed on self.hyperedges directly, not through add_edge
add_assignment_work_order(G, worker, work_order, date) ==
    IF worker \notin DOMAIN G.technician_indices THEN Out(G, Err("WorkerMissing"))
    ELSE IF work_order \notin DOMAIN G.work_order_indices THEN Out(G, Err("WorkOrderMissing"))
    ELSE IF date \notin DOMAIN G.period_indices THEN Out(G, Err("PeriodMissing"))
    ELSE
      LET hyperedge == [edge_type |-> "Assign", time |-> NoTime,
                        nodes |-> <<G.technician_indices[worker],
                                    G.work_order_indices[work_order],
                                    G.period_indices[date]>>]
          G1 == [G EXCEPT !.hyperedges = Append(@, hyperedge)]
      IN Out(G1, Ok(Len(G1.hyperedges) - 1))

\* the dates of the Day nodes in a hyperedge's node list (availability_days)
availability_days(G, hyperedge_index) ==
    LET availability_nodes == At(G.hyperedges, hyperedge_index).nodes
    IN {At(G.nodes, availability_nodes[i]).key :
           i \in {j \in 1..Len(availability_nodes) :
                     At(G.nodes, availability_nodes[j]).kind = "Day"}}

\* technician_covers that is content with one requested day in the edge
technician_covers_some_day(G, technician_node_index, days) ==
    LET incident == At(G.incidence_list, technician_node_index)
    IN \E i \in 1..Len(incident) :
          /\ At(G.hyperedges, incident[i]).edge_type = "Available"
          /\ \/ days = <<>>
             \/ \E k \in 1..Len(days) : days[k] \in availability_days(G, incident[i])

\* the body of the 'technician loop for one resolved technician: some incident
\* Available hyperedge has every requested day among its Day nodes
technician_covers(G, technician_node_index, days) ==
    LET incident == At(G.incidence_list, technician_node_index)
    IN \E i \in 1..Len(incident) :
          /\ At(G.hyperedges, incident[i]).edge_type = "Available"
          /\ \A k \in 1..Len(days) : days[k] \in availability_days(G, incident[i])

RECURSIVE resolve_technicians(_, _, _)
\* the 'technician loop of add_assignment_activity: each id is looked up
\* (WorkerMissing) and then checked for coverage (WorkerUnavailable) before
\* the next id is looked at
resolve_technicians(G, technicians, days) ==
    IF technicians = <<>> THEN OkList(<<>>)
    ELSE IF Head(technicians) \notin DOMAIN G.technician_indices THEN Err("WorkerMissing")
    ELSE LET technician_node_index == G.technician_indices[Head(technicians)]
         IN IF ~technician_covers(G, technician_node_index, days)
            THEN Err("WorkerUnavailable")
            ELSE LET rest == resolve_technicians(G, Tail(technicians), days)
                 IN IF rest.tag # "Ok" THEN rest
                    ELSE OkList(<<technician_node_index>> \o rest.list)

\* .find(..) inside the find_map: the first node of the hyperedge that is an
\* Activity with the activity number; -1 for None
first_activity_in_edge(G, hyperedge_index, activity_number) ==
    LET ns == At(G.hyperedges, hyperedge_index).nodes
        hits == {j \in 1..Len(ns) : /\ At(G.nodes, ns[j]).kind = "Activity"
                                    /\ At(G.nodes, ns[j]).key = activity_number}
    IN IF hits = {} THEN -1 ELSE ns[Min(hits)]

\* find_activity that takes the first Activity node of the graph with the
\* activity number, whichever work order contains it
find_activity_any_work_order(G, work_order_node_index, activity_number) ==
    LET hits == {h \in 0..(Len(G.nodes) - 1) : /\ At(G.nodes, h).kind = "Activity"
                                               /\ At(G.nodes, h).key = activity_number}
    IN IF hits = {} THEN -1 ELSE Min(hits)

\* .iter().find_map(..) over the work order's incidence list; -1 for None
find_activity(G, work_order_node_index, activity_number) ==
    LET incident == At(G.incidence_list, work_order_node_index)
        hits == {i \in 1..Len(incident) :
                    first_activity_in_edge(G, incident[i], activity_number) # -1}
    IN IF hits = {} THEN -1
       ELSE first_activity_in_edge(G, incident[Min(hits)], activity_number)

\* add_assignment_activity without the test of the number of people
add_assignment_activity_no_headcount(G, technicians, work_order_number, activity_number, days, start_and_finish_time) ==
    LET date_node_indices == resolve_all(G.day_indices, days, "DayMissing")
        technician_node_indices == resolve_technicians(G, technicians, days)
    IN IF date_node_indices.tag # "Ok" THEN Out(G, date_node_indices)
       ELSE IF technician_node_indices.tag # "Ok" THEN Out(G, technician_node_indices)
       ELSE IF work_order_number \notin DOMAIN G.work_order_indices
       THEN Out(G, Err("WorkOrderMissing"))
       ELSE
         LET activity_node_index ==
                 find_activity(G, G.work_order_indices[work_order_number], activity_number)
         IN IF activity_node_index = -1 THEN Out(G, Err("ActivityMissing"))
            ELSE Out(add_edge(G, "Assign", start_and_finish_time,
                              <<activity_node_index>> \o technician_node_indices.list
                                                      \o date_node_indices.list),
                     Ok(Len(G.hyperedges)))

\* add_assignment_activity that lists the days before the technicians
add_assignment_activity_days_first(G, technicians, work_order_number, activity_number, days, start_and_finish_time) ==
    LET date_node_indices == resolve_all(G.day_indices, days, "DayMissing")
        technician_node_indices == resolve_technicians(G, technicians, days)
    IN IF date_node_indices.tag # "Ok" THEN Out(G, date_node_indices)
       ELSE IF technician_node_indices.tag # "Ok" THEN Out(G, technician_node_indices)
       ELSE IF work_order_number \notin DOMAIN G.work_order_indices
       THEN Out(G, Err("WorkOrderMissing"))
       ELSE
         LET activity_node_index ==
                 find_activity(G, G.work_order_indices[work_order_number], activity_number)
         IN IF activity_node_index = -1 THEN Out(G, Err("ActivityMissing"))
            ELSE IF Len(technicians) > At(G.nodes, activity_node_index).people
            THEN Out(G, Err("ActivityExceedNumberOfPeople"))
            ELSE Out(add_edge(G, "Assign", start_and_finish_time,
                              <<activity_node_index>> \o date_node_indices.list
                                                      \o technician_node_indices.list),
                     Ok(Len(G.hyperedges)))

\* add_assignment_activity that counts the technicians of the activity's
\* earlier Assign edges together with the listed ones
add_assignment_activity_whole_activity(G, technicians, work_order_number, activity_number, days, start_and_finish_time) ==
    LET date_node_indices == resolve_all(G.day_indices, days, "DayMissing")
        technician_node_indices == resolve_technicians(G, technicians, days)
    IN IF date_node_indices.tag # "Ok" THEN Out(G, date_node_indices)
       ELSE IF technician_node_indices.tag # "Ok" THEN Out(G, technician_node_indices)
       ELSE IF work_order_number \notin DOMAIN G.work_order_indices
       THEN Out(G, Err("WorkOrderMissing"))
       ELSE
         LET activity_node_index ==
                 find_activity(G, G.work_order_indices[work_order_number], activity_number)
         IN IF activity_node_index = -1 THEN Out(G, Err("ActivityMissing"))
            ELSE IF Cardinality({t \in 0..(Len(G.nodes) - 1) :
                                    /\ At(G.nodes, t).kind = "Technician"
                                    /\ \/ t \in Range(technician_node_indices.list)
                                       \/ \E x \in 1..Len(G.hyperedges) :
                                             /\ G.hyperedges[x].edge_type = "Assign"
                                             /\ G.hyperedges[x].time # NoTime
                                             /\ G.hyperedges[x].nodes[1] = activity_node_index
                                             /\ t \in Range(G.hyperedges[x].nodes)})
                        > At(G.nodes, activity_node_index).people
                    \/ Len(technicians) > At(G.nodes, activity_node_index).people
            THEN Out(G, Err("ActivityExceedNumberOfPeople"))
            ELSE Out(add_edge(G, "Assign", start_and_finish_time,
                              <<activity_node_index>> \o technician_node_indices.list
                                                      \o date_node_indices.list),
                     Ok(Len(G.hyperedges)))

\* pub fn add_assignment_activity(&mut self, technicians, work_order_number,
\*     activity_number, days, start_and_finish_time) -> Result<EdgeIndex, ScheduleGraphErrors>
add_assignment_activity(G, technicians, work_order_number, activity_number, days, start_and_finish_time) ==
    LET date_node_indices == resolve_all(G.day_indices, days, "DayMissing")
        technician_node_indices == resolve_technicians(G, technicians, days)
    IN IF date_node_indices.tag # "Ok" THEN Out(G, date_node_indices)
       ELSE IF technician_node_indices.tag # "Ok" THEN Out(G, technician_node_indices)
       ELSE IF work_order_number \notin DOMAIN G.work_order_indices
       THEN Out(G, Err("WorkOrderMissing"))
       ELSE
         LET work_order_node_index == G.work_order_indices[work_order_number]
         IN IF work_order_node_index >= Len(G.incidence_list)
            THEN Out(G, Err("WorkOrderMissing"))
            ELSE
              LET activity_node_index == find_activity(G, work_order_node_index, activity_number)
              IN IF activity_node_index = -1 THEN Out(G, Err("ActivityMissing"))
                 ELSE IF Len(technicians) > At(G.nodes, activity_node_index).people
                 THEN Out(G, Err("ActivityExceedNumberOfPeople"))
                 ELSE
                   LET final_nodes_in_hyperedge ==
                           <<activity_node_index>> \o technician_node_indices.list
                                                   \o date_node_indices.list
                   IN Out(add_edge(G, "Assign", start_and_finish_time, final_nodes_in_hyperedge),
                          Ok(Len(G.hyperedges)))

RECURSIVE matches_in_edge_once(_, _, _, _)
\* the inner loop that stops at the first qualifying node of the hyperedge
matches_in_edge_once(G, edge_index, j, period_start_date) ==
    LET ns == At(G.hyperedges, edge_index).nodes
    IN IF j > Len(ns) THEN <<>>
       ELSE LET n == At(G.nodes, ns[j])
                hit == \/ (n.kind = "Period" /\ n.key = period_start_date)
                       \/ (n.kind = "Day" /\ period_start_date <= n.key
                                          /\ n.key < period_start_date + FindWindowDays)
            IN IF hit THEN <<edge_index>>
               ELSE matches_in_edge_once(G, edge_index, j + 1, period_start_date)

RECURSIVE matches_in_edge(_, _, _, _)
\* the inner loop of find_all_assignments_for_period over one hyperedge's
\* nodes, from position j on: one push of edge_index per qualifying node
matches_in_edge(G, edge_index, j, period_start_date) ==
    LET ns == At(G.hyperedges, edge_index).nodes
    IN IF j > Len(ns) THEN <<>>
       ELSE LET n == At(G.nodes, ns[j])
                hit == \/ (n.kind = "Period" /\ n.key = period_start_date)
                       \/ (n.kind = "Day" /\ period_start_date <= n.key
                                          /\ n.key < period_start_date + FindWindowDays)
            IN (IF hit THEN <<edge_index>> ELSE <<>>)
                   \o matches_in_edge(G, edge_index, j + 1, period_start_date)

RECURSIVE scan_assignments(_, _, _)
\* the outer loop over assignment_hyper_edges, from edge handle e on
scan_assignments(G, e, period_start_date) ==
    IF e >= Len(G.hyperedges) THEN <<>>
    ELSE (IF At(G.hyperedges, e).edge_type = "Assign"
          THEN matches_in_edge(G, e, 1, period_start_date) ELSE <<>>)
             \o scan_assignments(G, e + 1, period_start_date)

\* find_all_assignments_for_period that accepts when any Period node exists
find_all_assignments_any_period(G, period_start_date) ==
    IF ~(\E i \in 1..Len(G.nodes) : G.nodes[i].kind = "Period")
    THEN Out(G, Err("PeriodMissing"))
    ELSE Out(G, OkList(scan_assignments(G, 0, period_start_date)))

\* pub fn find_all_assignments_for_period(&self, period_start_date: Period)
\*     -> Result<Vec<EdgeIndex>, ScheduleGraphErrors>
find_all_assignments_for_period(G, period_start_date) ==
    IF ~(\E i \in 1..Len(G.nodes) : G.nodes[i] = Node("Period", period_start_date))
    THEN Out(G, Err("PeriodMissing"))
    ELSE Out(G, OkList(scan_assignments(G, 0, period_start_date)))

\* add_assign_skill_to_worker that looks the skill up first
add_assign_skill_to_worker_skill_first(G, worker, skill) ==
    IF skill \notin DOMAIN G.skill_indices THEN Out(G, Err("SkillMissing"))
    ELSE IF worker \notin DOMAIN G.technician_indices THEN Out(G, Err("WorkerMissing"))
    ELSE Out(add_edge(G, "HasSkill", NoTime,
                      <<G.technician_indices[worker], G.skill_indices[skill]>>),
             Ok(Len(G.hyperedges)))

\* add_assign_skill_to_worker whose edge lists the skill before the worker
add_assign_skill_to_worker_skill_head(G, worker, skill) ==
    IF worker \notin DOMAIN G.technician_indices THEN Out(G, Err("WorkerMissing"))
    ELSE IF skill \notin DOMAIN G.skill_indices THEN Out(G, Err("SkillMissing"))
    ELSE Out(add_edge(G, "HasSkill", NoTime,
                      <<G.skill_indices[skill], G.technician_indices[worker]>>),
             Ok(Len(G.hyperedges)))

\* pub fn add_assign_skill_to_worker(&mut self, worker: TechnicianId, skill: Skill)
\*     -> Result<EdgeIndex, ScheduleGraphErrors>
add_assign_skill_to_worker(G, worker, skill) ==
    IF worker \notin DOMAIN G.technician_indices THEN Out(G, Err("WorkerMissing"))
    ELSE IF skill \notin DOMAIN G.skill_indices THEN Out(G, Err("SkillMissing"))
    ELSE Out(add_edge(G, "HasSkill", NoTime,
                      <<G.technician_indices[worker], G.skill_indices[skill]>>),
             Ok(Len(G.hyperedges)))

\* add_exclusion with the window of find_all_assignments_for_period: the
\* last day of the period left out
add_exclusion_half_open(G, work_order_number, period) ==
    IF work_order_number \notin DOMAIN G.work_order_indices THEN Out(G, Err("WorkOrderMissing"))
    ELSE IF period \notin DOMAIN G.period_indices THEN Out(G, Err("PeriodMissing"))
    ELSE
      LET in_window == {naive_date \in DOMAIN G.day_indices :
                           period <= naive_date /\ naive_date < period + ExcludeWindowDays}
          dates == SortedSeq(in_window)
          days_node_indices == [i \in 1..Len(dates) |-> G.day_indices[dates[i]]]
      IN Out(add_edge(G, "Exclude", NoTime,
                      <<G.work_order_indices[work_order_number], G.period_indices[period]>>
                          \o days_node_indices),
             Ok(Len(G.hyperedges)))

\* pub fn add_exclusion(&mut self, work_order_number: &WorkOrderNumber, period: &Period)
\*     -> Result<EdgeIndex, ScheduleGraphErrors>
add_exclusion(G, work_order_number, period) ==
    IF work_order_number \notin DOMAIN G.work_order_indices THEN Out(G, Err("WorkOrderMissing"))
    ELSE IF period \notin DOMAIN G.period_indices THEN Out(G, Err("PeriodMissing"))
    ELSE
      LET in_window == {naive_date \in DOMAIN G.day_indices :
                           period <= naive_date /\ naive_date <= period + ExcludeWindowDays}
          dates == SortedSeq(in_window)
          days_node_indices == [i \in 1..Len(dates) |-> G.day_indices[dates[i]]]
          final_nodes_in_hyperedge ==
              <<G.work_order_indices[work_order_number], G.period_indices[period]>>
                  \o days_node_indices
      IN Out(add_edge(G, "Exclude", NoTime, final_nodes_in_hyperedge), Ok(Len(G.hyperedges)))

----------------------------------------------------------------------------
(* The value types of crates/scheduling_environment *)

\* a u64 is kept as two decimal limbs <<high, low>>: its value is
\* high * 10^9 + low, with low below 10^9
Limb == 1000000000

U64(n) == <<n \div Limb, n % Limb>>

RECURSIVE Digits(_)
\* the number of decimal digits of a limb
Digits(n) == IF n < 10 THEN 1 ELSE 1 + Digits(n \div 10)

\* work_order_number.to_string().len()
to_string_len(work_order_number) ==
    IF work_order_number[1] = 0 THEN Digits(work_order_number[2])
    ELSE Digits(work_order_number[1]) + 9

\* #[derive(PartialOrd, Ord)] on Activity: activity_number, then
\* number_of_people, then resource (Skill: MtnMech before MtnElec)
Activity_lt(a, b) ==
    \/ a.activity_number < b.activity_number
    \/ /\ a.activity_number = b.activity_number
       /\ \/ a.number_of_people < b.number_of_people
          \/ /\ a.number_of_people = b.number_of_people
             /\ a.skill < b.skill

\* activities.is_sorted(): every element is <= the next one
is_sorted(activities) ==
    \A i \in 1..(Len(activities) - 1) :
        activities[i] = activities[i + 1] \/ Activity_lt(activities[i], activities[i + 1])

\* WorkOrder::new that tests the order of the activities before the number
WorkOrder_new_sorted_first(work_order_number, basic_start_date, activities) ==
    IF ~is_sorted(activities) THEN Err("NonSortedActivities")
    ELSE IF to_string_len(work_order_number) # 10 THEN Err("InvalidWorkOrderNumber")
    ELSE IF Cardinality(Range(activities)) # Len(activities) THEN Err("DuplicatedActivities")
    ELSE Ok(Len(activities))

\* pub fn new(work_order_number, basic_start_date, activities) -> Result<Self, WorkOrderError>;
\* Ok carries the number of activities of the work order built
WorkOrder_new(work_order_number, basic_start_date, activities) ==
    IF to_string_len(work_order_number) # 10 THEN Err("InvalidWorkOrderNumber")
    ELSE IF ~is_sorted(activities) THEN Err("NonSortedActivities")
    ELSE IF Cardinality(Range(activities)) # Len(activities) THEN Err("DuplicatedActivities")
    ELSE Ok(Len(activities))

\* overlaps_with that takes the windows as closed at both ends
overlaps_with_closed(self, other) == self[1] <= other[2] /\ other[1] <= self[2]

\* pub fn overlaps_with(&self, other: &Availability) -> bool;
\* an Availability is <<start, end>>
overlaps_with(self, other) == self[1] < other[2] /\ other[1] < self[2]

\* impl Ord for Availability: by start time, then by end time
Availability_lt(a, b) == a[1] < b[1] \/ (a[1] = b[1] /\ a[2] < b[2])

\* pub fn add_availability(mut self, start, end) -> Result<Self, TechnicianBuilderError>;
\* self is the builder's BTreeSet of availabilities, scanned in its order
add_availability(self, start, end) ==
    LET new_availability == <<start, end>>
        overlapping == {existing \in self : overlaps_with(new_availability, existing)}
    IN IF overlapping # {}
       THEN LET existing == CHOOSE x \in overlapping :
                                \A y \in overlapping : x = y \/ Availability_lt(x, y)
            IN [availabilities |-> self,
                res |-> [tag |-> "Err", val |-> -1,
                         list |-> <<start, end, existing[1], existing[2]>>,
                         err |-> "OverlappingAvailability"]]
       ELSE [availabilities |-> self \cup {new_availability}, res |-> Ok(0)]

----------------------------------------------------------------------------
(* Inputs of the operations *)

Activity(activity_number, number_of_people, resource) ==
    [activity_number |-> activity_number, number_of_people |-> number_of_people,
     skill |-> resource]

WorkOrder(work_order_number, basic_start_date, activities) ==
    [work_order_number |-> work_order_number, basic_start_date |-> basic_start_date,
     activities |-> activities]

Technician(technician_id, skills) == [id |-> technician_id, skills |-> skills]

\* A caller: the calls one client of the graph makes, as the sets its
\* arguments are drawn from.  technicians holds <<technician, availability>>
\* pairs; the other sets hold the argument tuples of the operation.
Calendar ==
    [skills |-> {MtnMech},
     periods |-> {0, 7, 14},
     work_orders |-> {WorkOrder(1122334456, 13, <<>>), WorkOrder(1122334456, 21, <<>>)},
     technicians |-> {<<Technician(1001, {MtnMech}), <<13, 14>>>>},
     work_order_assignments |-> {<<1001, 1122334456, 0>>, <<1001, 1122334456, 14>>},
     activity_assignments |-> {<<<<1001>>, 1122334456, 10, <<13, 14>>, <<9, 11>>>>},
     skill_grants |-> {<<1001, MtnMech>>},
     exclusions |-> {<<1122334456, 0>>, <<1122334456, 14>>},
     queries |-> {0, 7, 14}]

Assignment ==
    [skills |-> {MtnMech, MtnElec},
     periods |-> {0},
     work_orders |-> {WorkOrder(1122334455, 0, <<Activity(10, 2, MtnMech), Activity(20, 1, MtnElec),
                                                 Activity(30, 1, MtnMech)>>)},
     technicians |-> {<<Technician(1001, {MtnMech}), <<0, 0>>>>,
                      <<Technician(1002, {MtnElec}), <<13, 13>>>>,
                      <<Technician(1002, {MtnMech, MtnElec}), <<0, 1>>>>},
     work_order_assignments |-> {},
     activity_assignments |-> {<<<<1001>>, 1122334455, 10, <<0>>, <<9, 11>>>>,
                               <<<<1001, 1002>>, 1122334455, 10, <<0>>, <<9, 11>>>>,
                               <<<<1001, 1002>>, 1122334455, 20, <<0>>, <<9, 11>>>>,
                               <<<<1001>>, 1122334455, 10, <<13>>, <<9, 11>>>>,
                               <<<<1001>>, 1122334455, 10, <<0, 1>>, <<9, 11>>>>,
                               <<<<1001, 1002>>, 1122334455, 10, <<13>>, <<9, 11>>>>,
                               <<<<1002, 1001>>, 1122334455, 10, <<0, 1>>, <<9, 11>>>>,
                               <<<<1002>>, 1122334455, 20, <<13>>, <<9, 11>>>>},
     skill_grants |-> {<<1002, MtnMech>>},
     exclusions |-> {},
     queries |-> {0}]

\* a caller that registers technicians: no skill, both skills, an availability
\* that finishes before it starts, one that leaves the calendar
Roster ==
    [skills |-> {MtnMech, MtnElec},
     periods |-> {0},
     work_orders |-> {},
     technicians |-> {<<Technician(1001, {}), <<1, 0>>>>,
                      <<Technician(1001, {MtnMech, MtnElec}), <<0, 2>>>>,
                      <<Technician(1002, {MtnElec}), <<13, 14>>>>,
                      <<Technician(1002, {MtnElec}), <<12, 13>>>>},
     work_order_assignments |-> {},
     activity_assignments |-> {},
     skill_grants |-> {<<1001, MtnElec>>},
     exclusions |-> {},
     queries |-> {0}]

\* a caller with two work orders that share an activity number
Scope ==
    [skills |-> {MtnMech},
     periods |-> {0},
     work_orders |-> {WorkOrder(1122334455, 0, <<Activity(10, 1, MtnMech)>>),
                      WorkOrder(1122334456, 1, <<Activity(10, 2, MtnMech), Activity(20, 1, MtnMech)>>)},
     technicians |-> {<<Technician(1001, {MtnMech}), <<0, 1>>>>},
     work_order_assignments |-> {},
     activity_assignments |-> {<<<<1001>>, 1122334455, 10, <<0>>, <<9, 11>>>>,
                               <<<<1001>>, 1122334456, 10, <<0>>, <<9, 11>>>>,
                               <<<<1001>>, 1122334455, 20, <<0>>, <<9, 11>>>>,
                               <<<<1001>>, 1122334455, 10, <<1, 0>>, <<9, 11>>>>,
                               <<<<>>, 1122334456, 20, <<>>, <<9, 11>>>>},
     skill_grants |-> {},
     exclusions |-> {<<1122334455, 0>>},
     queries |-> {0}]

\* a caller that staffs one work order whose two activities share the number
\* 10, with two technicians in separate calls and with a day listed twice
Crew ==
    [skills |-> {MtnMech},
     periods |-> {0},
     work_orders |-> {WorkOrder(1122334455, 0, <<Activity(10, 1, MtnMech), Activity(10, 2, MtnMech)>>)},
     technicians |-> {<<Technician(1001, {MtnMech}), <<0, 0>>>>,
                      <<Technician(1002, {MtnMech}), <<0, 0>>>>},
     work_order_assignments |-> {},
     activity_assignments |-> {<<<<1001>>, 1122334455, 10, <<0>>, <<9, 11>>>>,
                               <<<<1002>>, 1122334455, 10, <<0>>, <<9, 11>>>>,
                               <<<<1001>>, 1122334455, 10, <<0, 0>>, <<9, 11>>>>},
     skill_grants |-> {},
     exclusions |-> {},
     queries |-> {0}]

Callers == {"Calendar", "Assignment", "Roster", "Scope", "Crew"}

\* the values the caller of this behaviour draws its arguments from
Inputs ==
    CASE caller = "Calendar" -> Calendar
      [] caller = "Assignment" -> Assignment
      [] caller = "Roster" -> Roster
      [] caller = "Crew" -> Crew
      [] OTHER -> Scope

----------------------------------------------------------------------------
(* The state machine: one action per public operation *)

Idle == [op |-> "idle", args |-> <<>>,
         res |-> [tag |-> "None", val |-> -1, list |-> <<>>, err |-> "None"]]

Init ==
    /\ nodes = new.nodes
    /\ hyperedges = new.hyperedges
    /\ incidence_list = new.incidence_list
    /\ technician_indices = new.technician_indices
    /\ work_order_indices = new.work_order_indices
    /\ period_indices = new.period_indices
    /\ skill_indices = new.skill_indices
    /\ day_indices = new.day_indices
    /\ aborted = new.aborted
    /\ last = Idle
    /\ caller \in Callers
    /\ availabilities = {}

\* a call of a public operation on the graph: the graph becomes what the
\* handler leaves, and last holds the call and what it returned until the
\* caller takes the result (Return)
Call(op, args, out) ==
    /\ ~aborted
    /\ last.op = "idle"
    /\ nodes' = out.g.nodes
    /\ hyperedges' = out.g.hyperedges
    /\ incidence_list' = out.g.incidence_list
    /\ technician_indices' = out.g.technician_indices
    /\ work_order_indices' = out.g.work_order_indices
    /\ period_indices' = out.g.period_indices
    /\ skill_indices' = out.g.skill_indices
    /\ day_indices' = out.g.day_indices
    /\ aborted' = out.g.aborted
    /\ last' = [op |-> op, args |-> args, res |-> out.res]
    /\ UNCHANGED <<caller, availabilities>>

\* the edges made by the operations that only relate existing nodes
RelationEdges ==
    {e \in 1..Len(hyperedges) : hyperedges[e].edge_type \in {"Assign", "HasSkill", "Exclude"}}

RelationRoom == Cardinality(RelationEdges) < MaxRelations

AddSkill ==
    \E skill \in Inputs.skills : Call("add_skill", <<skill>>, add_skill(Self, skill))

AddPeriod ==
    \E period \in Inputs.periods : Call("add_period", <<period>>, add_period(Self, period))

AddWorkOrder ==
    \E work_order \in Inputs.work_orders :
        Call("add_work_order", <<work_order>>, add_work_order(Self, work_order))

AddTechnician ==
    \E t \in Inputs.technicians :
        Call("add_technician", t, add_technician(Self, t[1], t[2]))

AddAssignmentWorkOrder ==
    /\ RelationRoom
    /\ \E a \in Inputs.work_order_assignments :
          Call("add_assignment_work_order", a,
               add_assignment_work_order(Self, a[1], a[2], a[3]))

AddAssignmentActivity ==
    /\ RelationRoom
    /\ \E a \in Inputs.activity_assignments :
          Call("add_assignment_activity", a,
               add_assignment_activity(Self, a[1], a[2], a[3], a[4], a[5]))

FindAllAssignmentsForPeriod ==
    \E period \in Inputs.queries :
        Call("find_all_assignments_for_period", <<period>>,
             find_all_assignments_for_period(Self, period))

AddAssignSkillToWorker ==
    /\ RelationRoom
    /\ \E a \in Inputs.skill_grants :
          Call("add_assign_skill_to_worker", a,
               add_assign_skill_to_worker(Self, a[1], a[2]))

AddExclusion ==
    /\ RelationRoom
    /\ \E a \in Inputs.exclusions :
          Call("add_exclusion", a, add_exclusion(Self, a[1], a[2]))

\* the caller takes the result of the call; a panic has no return
Return ==
    /\ ~aborted
    /\ last.op # "idle"
    /\ last' = Idle
    /\ UNCHANGED <<graph_vars, aborted, caller, availabilities>>

Next ==
    \/ AddSkill
    \/ AddPeriod
    \/ AddWorkOrder
    \/ AddTechnician
    \/ AddAssignmentWorkOrder
    \/ AddAssignmentActivity
    \/ FindAllAssignmentsForPeriod
    \/ AddAssignSkillToWorker
    \/ AddExclusion
    \/ Return

Spec == Init /\ [][Next]_vars

----------------------------------------------------------------------------
(* The state machine of the value types: WorkOrder::new and the            *)
(* TechnicianBuilder, called on their own, each by a caller of its own     *)

\* the arguments of WorkOrder::new: numbers of 1, 9, 10, 11 and 17 digits
WorkOrderNumbers ==
    {<<0, 0>>, <<0, 999999999>>, <<1, 0>>, <<1, 122334455>>, <<9, 999999999>>,
     <<10, 0>>, <<18446744, 73709551>>}

ActivityInputs ==
    {Activity(10, 1, MtnMech), Activity(10, 1, MtnElec), Activity(10, 2, MtnMech),
     Activity(20, 1, MtnMech)}

ActivityLists == UNION {[1..n -> ActivityInputs] : n \in 0..MaxActivities}

\* the instants (chrono::NaiveDateTime) of the availability windows
Times == 0..MaxTime

InitEnvironment ==
    /\ nodes = new.nodes
    /\ hyperedges = new.hyperedges
    /\ incidence_list = new.incidence_list
    /\ technician_indices = new.technician_indices
    /\ work_order_indices = new.work_order_indices
    /\ period_indices = new.period_indices
    /\ skill_indices = new.skill_indices
    /\ day_indices = new.day_indices
    /\ aborted = new.aborted
    /\ last = Idle
    /\ caller \in {"WorkOrders", "Builder"}
    /\ availabilities = {}

NewWorkOrder ==
    /\ caller = "WorkOrders"
    /\ last.op = "idle"
    /\ \E work_order_number \in WorkOrderNumbers, activities \in ActivityLists :
          last' = [op |-> "WorkOrder::new",
                   args |-> <<work_order_number, 0, activities>>,
                   res |-> WorkOrder_new(work_order_number, 0, activities)]
    /\ UNCHANGED <<graph_vars, aborted, caller, availabilities>>

\* pub fn new(technician_id: usize) -> Self: a builder with no availability
TechnicianBuilderNew ==
    /\ caller = "Builder"
    /\ last.op = "idle"
    /\ availabilities # {}
    /\ availabilities' = {}
    /\ last' = [op |-> "TechnicianBuilder::new", args |-> <<1001>>, res |-> Ok(0)]
    /\ UNCHANGED <<graph_vars, aborted, caller>>

\* add_availability takes the builder by value: after a fault the caller has
\* no builder left and goes on from a new one
BuilderAddAvailability ==
    /\ caller = "Builder"
    /\ last.op = "idle"
    /\ Cardinality(availabilities) < MaxAvailabilities
    /\ \E start \in Times, end \in Times :
          LET out == add_availability(availabilities, start, end)
          IN /\ last' = [op |-> "add_availability", args |-> <<start, end>>, res |-> out.res]
             /\ availabilities' = IF out.res.tag = "Ok" THEN out.availabilities ELSE {}
    /\ UNCHANGED <<graph_vars, aborted, caller>>

NextEnvironment ==
    \/ NewWorkOrder
    \/ TechnicianBuilderNew
    \/ BuilderAddAvailability
    \/ Return

SpecEnvironment == InitEnvironment /\ [][NextEnvironment]_vars

----------------------------------------------------------------------------
(* Vocabulary of the properties *)

Handles == 0..(Len(nodes) - 1)
EdgeHandles == 0..(Len(hyperedges) - 1)

IsOk(r) == r.tag = "Ok"
IsErr(r, e) == r.tag = "Err" /\ r.err = e

\* the graph is left as it was by a step
GraphUnchanged == UNCHANGED graph_vars

\* the index of a uniquely-keyed kind, in the state
IndexOfKind(kind) == IndexOf(Self, kind)

\* an index holds exactly the keys of the nodes of its kind, each mapped to
\* the handle of the node that carries it; no two nodes of the kind then
\* carry one key, both being at the handle the index gives
IndexExact(kind) ==
    /\ \A h \in Handles :
          At(nodes, h).kind = kind =>
              /\ At(nodes, h).key \in DOMAIN IndexOfKind(kind)
              /\ IndexOfKind(kind)[At(nodes, h).key] = h
    /\ \A k \in DOMAIN IndexOfKind(kind) :
          /\ IndexOfKind(kind)[k] \in Handles
          /\ At(nodes, IndexOfKind(kind)[k]) = Node(kind, k)

----------------------------------------------------------------------------
(* Properties *)

\* C1: after any sequence of public operations, successful or faulting, the
\* incidence list has exactly one entry per node.
C1_IncidenceLength == Len(incidence_list) = Len(nodes)

C1_Witness ==
    /\ last.res.tag = "Err"
    /\ Len(nodes) > PeriodLength + 1
    /\ Len(hyperedges) > 0

\* C2: every edge handle stored in the incidence sequence of node n is the
\* handle of an existing hyperedge whose node list contains n.
C2_IncidenceSound ==
    \A n \in 0..(Len(incidence_list) - 1) :
        \A i \in 1..Len(At(incidence_list, n)) :
            LET e == At(incidence_list, n)[i]
            IN /\ e \in EdgeHandles
               /\ n \in Range(At(hyperedges, e).nodes)

C2_Witness ==
    \E n \in Handles : Len(At(incidence_list, n)) >= 3

\* the hyperedges made through add_edge: every kind but Assign(None), which
\* only add_assignment_work_order makes
ThroughAddEdge(e) ==
    ~(At(hyperedges, e).edge_type = "Assign" /\ At(hyperedges, e).time = NoTime)

\* C3: for every hyperedge created by add_work_order, add_technician,
\* add_assignment_activity, add_assign_skill_to_worker or add_exclusion, every
\* node handle in its node list has the edge's handle in its incidence
\* sequence, in every state after the edge was created.
C3_EdgesRecorded ==
    \A e \in EdgeHandles :
        ThroughAddEdge(e) =>
            \A i \in 1..Len(At(hyperedges, e).nodes) :
                LET n == At(hyperedges, e).nodes[i]
                IN /\ n \in Handles
                   /\ e \in Range(At(incidence_list, n))

C3_Witness ==
    /\ \E e \in EdgeHandles : At(hyperedges, e).edge_type = "Assign"
                              /\ At(hyperedges, e).time # NoTime
    /\ \E e \in EdgeHandles : At(hyperedges, e).edge_type = "Available"
    /\ \E e \in EdgeHandles : At(hyperedges, e).edge_type = "FinishStart"
    /\ last.op = "idle"

\* C4: every public mutating operation that creates a hyperedge records it in
\* the incidence index; in particular, after a successful
\* add_assignment_work_order the returned edge handle is present in the
\* incidence sequences of the worker, the work-order and the period node.
C4_AssignmentWorkOrderRecorded ==
    (last.op = "add_assignment_work_order" /\ IsOk(last.res)) =>
        /\ Len(At(hyperedges, last.res.val).nodes) = 3
        /\ \A i \in 1..3 :
              last.res.val \in Range(At(incidence_list, At(hyperedges, last.res.val).nodes[i]))

\* C5: in every state reachable through the public operations (a call that
\* panicked has not returned: the program is gone), for each uniquely-keyed
\* kind at most one node carries a given key, and the matching index maps
\* exactly the keys of the existing nodes of that kind, each to the handle of
\* the node with that key.
C5_UniqueKeysAndExactIndices ==
    ~aborted =>
        \A kind \in {"Technician", "WorkOrder", "Period", "Skill", "Day"} : IndexExact(kind)

C5_Witness ==
    /\ ~aborted
    /\ Cardinality(DOMAIN day_indices) = 2 * PeriodLength
    /\ Cardinality(DOMAIN period_indices) = 2
    /\ DOMAIN technician_indices # {}
    /\ DOMAIN work_order_indices # {}
    /\ DOMAIN skill_indices # {}
    /\ last.res.tag = "Err"

\* the skills of a work order's activities all have a Skill node and its
\* basic-start date has a Day node
WorkOrderResolves(work_order) ==
    /\ \A i \in 1..Len(work_order.activities) :
          work_order.activities[i].skill \in DOMAIN skill_indices
    /\ work_order.basic_start_date \in DOMAIN day_indices

\* a step that is a call of op
Calls(op) == last'.op = op /\ last.op = "idle"

\* C6 (as claimed): a second add_period, add_technician or add_work_order whose
\* key was already added successfully returns the matching duplicate fault
\* (PeriodDuplicate, WorkerDuplicate, WorkOrderDuplicate) and creates no new
\* node and no new edge.
C6_DuplicateFaultAlways ==
    [][ /\ (Calls("add_period") /\ last'.args[1] \in DOMAIN period_indices)
            => (IsErr(last'.res, "PeriodDuplicate") /\ GraphUnchanged)
        /\ (Calls("add_technician") /\ last'.args[1].id \in DOMAIN technician_indices)
            => (IsErr(last'.res, "WorkerDuplicate") /\ GraphUnchanged)
        /\ (Calls("add_work_order")
               /\ last'.args[1].work_order_number \in DOMAIN work_order_indices)
            => (IsErr(last'.res, "WorkOrderDuplicate") /\ GraphUnchanged)
      ]_vars

\* C6 (amended): a second add_period or add_technician whose key was already
\* added returns PeriodDuplicate or WorkerDuplicate; a second add_work_order
\* whose number was already added returns WorkOrderDuplicate when its
\* activities' skills all have Skill nodes and its basic-start date has a Day
\* node, and otherwise the fault of the earlier check
\* (WorkOrderActivityMissingSkills, then DayMissing); in every case no node
\* and no edge is created.
C6_DuplicateFault ==
    [][ /\ (Calls("add_period") /\ last'.args[1] \in DOMAIN period_indices)
            => (IsErr(last'.res, "PeriodDuplicate") /\ GraphUnchanged)
        /\ (Calls("add_technician") /\ last'.args[1].id \in DOMAIN technician_indices)
            => (IsErr(last'.res, "WorkerDuplicate") /\ GraphUnchanged)
        /\ (Calls("add_work_order")
               /\ last'.args[1].work_order_number \in DOMAIN work_order_indices)
            => /\ GraphUnchanged
               /\ last'.res.tag = "Err"
               /\ last'.res.err \in {"WorkOrderActivityMissingSkills", "DayMissing",
                                     "WorkOrderDuplicate"}
               /\ WorkOrderResolves(last'.args[1]) <=> last'.res.err = "WorkOrderDuplicate"
      ]_vars

C6_Witness ==
    /\ last.op = "add_work_order"
    /\ IsErr(last.res, "WorkOrderDuplicate")
    /\ Len(hyperedges) > 1

\* C7: add_skill is create-or-get and never fails: the first add_skill(s)
\* adds exactly one Skill node and returns its handle, and every later
\* add_skill(s) returns that same handle (the handle of the one Skill node of
\* s, which never moves) and leaves node count, edge count, incidence list
\* and all indices unchanged.
C7_AddSkillCreateOrGet ==
    [][ Calls("add_skill") =>
          LET skill == last'.args[1] IN
          /\ IsOk(last'.res)
          /\ last'.res.val \in 0..(Len(nodes') - 1)
          /\ {i \in 1..Len(nodes') : nodes'[i] = Node("Skill", skill)} = {last'.res.val + 1}
          /\ (\E i \in 1..Len(nodes) : nodes[i] = Node("Skill", skill)) => GraphUnchanged
          /\ ~(\E i \in 1..Len(nodes) : nodes[i] = Node("Skill", skill)) =>
                /\ nodes' = Append(nodes, Node("Skill", skill))
                /\ last'.res.val = Len(nodes)
                /\ incidence_list' = Append(incidence_list, <<>>)
                /\ skill_indices' = MapInsert(skill_indices, skill, Len(nodes))
                /\ UNCHANGED <<hyperedges, technician_indices, work_order_indices,
                               period_indices, day_indices>>
      ]_vars

C7_Witness ==
    /\ last.op = "add_skill"
    /\ IsOk(last.res)
    /\ last.res.val < Len(nodes) - 1
    /\ last.res.val > 0

\* C8: once add_period(P) has succeeded, find_all_assignments_for_period(P)
\* never returns PeriodMissing in any later state; conversely it returns
\* PeriodMissing for every period that has no Period node.  succeeded: a
\* successful add_period(P) leaves P in the period index, and no step takes a
\* period out of it.
C8_FindAfterAddPeriod ==
    [][ /\ (Calls("add_period") /\ IsOk(last'.res)) => last'.args[1] \in DOMAIN period_indices'
        /\ DOMAIN period_indices \subseteq DOMAIN period_indices'
        /\ Calls("find_all_assignments_for_period") =>
              LET period == last'.args[1] IN
              /\ period \in DOMAIN period_indices => IsOk(last'.res)
              /\ ~(\E h \in Handles : At(nodes, h) = Node("Period", period))
                    => IsErr(last'.res, "PeriodMissing")
      ]_vars

C8_Witness ==
    /\ last.op = "find_all_assignments_for_period"
    /\ IsOk(last.res)
    /\ Len(last.res.list) > 0
    /\ Len(nodes) > 2 * PeriodLength

C8_WitnessMissing ==
    /\ last.op = "find_all_assignments_for_period"
    /\ IsErr(last.res, "PeriodMissing")
    /\ DOMAIN period_indices # {}

\* C9: a successful add_period(P) called with node count h appends exactly 15
\* nodes and no edge: Day nodes for the 14 consecutive dates P.start_date ..
\* P.start_date + 13 at handles h .. h+13 in date order, then the Period node
\* at handle h+14; it indexes each of them and returns h+14.
C9_AddPeriodAppends ==
    [][ (Calls("add_period") /\ IsOk(last'.res)) =>
          LET period == last'.args[1]
              h == Len(nodes)
          IN /\ Len(nodes') = h + 15
             /\ SubSeq(nodes', 1, h) = nodes
             /\ \A i \in 0..13 : At(nodes', h + i) = Node("Day", period + i)
             /\ At(nodes', h + 14) = Node("Period", period)
             /\ hyperedges' = hyperedges
             /\ incidence_list' = incidence_list \o [i \in 1..15 |-> <<>>]
             /\ DOMAIN day_indices' = DOMAIN day_indices \cup (period..(period + 13))
             /\ \A i \in 0..13 : day_indices'[period + i] = h + i
             /\ \A d \in DOMAIN day_indices : day_indices'[d] = day_indices[d]
             /\ period_indices' = MapInsert(period_indices, period, h + 14)
             /\ UNCHANGED <<technician_indices, work_order_indices, skill_indices>>
             /\ last'.res.val = h + 14
      ]_vars

C9_Witness ==
    /\ last.op = "add_period"
    /\ IsOk(last.res)
    /\ last.res.val > 2 * PeriodLength + 2
    /\ Len(hyperedges) > 0

\* the 14-day range of period shares a date with the range of a period of
\* the index
OverlapsAddedPeriod(period) ==
    \E q \in DOMAIN period_indices :
        /\ q # period
        /\ q < period + PeriodLength
        /\ period < q + PeriodLength

\* the dates of days, in order, before the first one that has a Day node
RECURSIVE FreshPrefix(_)
FreshPrefix(days) ==
    IF days = <<>> \/ Head(days) \in DOMAIN day_indices THEN <<>>
    ELSE <<Head(days)>> \o FreshPrefix(Tail(days))

\* C10: add_period(P) for a period that is not yet indexed but whose 14-day
\* range shares at least one date with an already added period does not
\* return a fault: it aborts on the duplicate-key assertion of add_node when
\* it reaches the first already-indexed date (the Day nodes of the dates
\* before it have been appended, no Period node has).
C10_OverlapAborts ==
    [][ (Calls("add_period") /\ last'.args[1] \notin DOMAIN period_indices
                             /\ OverlapsAddedPeriod(last'.args[1])) =>
          LET fresh == FreshPrefix(days_in_period(last'.args[1]))
          IN /\ last'.res.tag = "Panic"
             /\ aborted'
             /\ Len(fresh) < PeriodLength
             /\ nodes' = nodes \o [i \in 1..Len(fresh) |-> Node("Day", fresh[i])]
             /\ period_indices' = period_indices
             /\ hyperedges' = hyperedges
      ]_vars

C10_Witness ==
    /\ aborted
    /\ last.op = "add_period"
    /\ last.res.tag = "Panic"
    /\ At(nodes, Len(nodes) - 1).kind = "Day"
    /\ \E h \in Handles : At(nodes, h).kind = "Period"

\* every skill of the work order's activities has a Skill node
ActivitySkillsPresent(work_order) ==
    \A i \in 1..Len(work_order.activities) :
        \E h \in Handles : At(nodes, h) = Node("Skill", work_order.activities[i].skill)

\* C11: add_work_order validates in the order (1) every activity's skill has
\* a Skill node, else WorkOrderActivityMissingSkills; (2) the basic-start
\* date has a Day node, else DayMissing; (3) the work-order number is not
\* indexed, else WorkOrderDuplicate.  The fault returned is that of the first
\* failing check in this order (the graph is then left as it was), and the
\* call succeeds exactly when all three checks pass.
C11_WorkOrderValidationOrder ==
    [][ Calls("add_work_order") =>
          LET work_order == last'.args[1]
              skills_present == ActivitySkillsPresent(work_order)
              day_present == \E h \in Handles : At(nodes, h) = Node("Day", work_order.basic_start_date)
              number_free == work_order.work_order_number \notin DOMAIN work_order_indices
          IN /\ ~skills_present =>
                    IsErr(last'.res, "WorkOrderActivityMissingSkills") /\ GraphUnchanged
             /\ (skills_present /\ ~day_present) =>
                    IsErr(last'.res, "DayMissing") /\ GraphUnchanged
             /\ (skills_present /\ day_present /\ ~number_free) =>
                    IsErr(last'.res, "WorkOrderDuplicate") /\ GraphUnchanged
             /\ IsOk(last'.res) <=> (skills_present /\ day_present /\ number_free)
      ]_vars

\* a call that fails two checks at once has returned the fault of the first
C11_Witness ==
    /\ last.op = "add_work_order"
    /\ IsErr(last.res, "WorkOrderActivityMissingSkills")
    /\ last.args[1].basic_start_date \notin DOMAIN day_indices
    /\ DOMAIN skill_indices # {}

C11_WitnessDayBeforeDuplicate ==
    /\ last.op = "add_work_order"
    /\ IsErr(last.res, "DayMissing")
    /\ last.args[1].work_order_number \in DOMAIN work_order_indices

\* a node equal to node exists
Present(node) == \E h \in Handles : At(nodes, h) = node

\* the handle of the one node equal to node; -1 when there is none
HandleOf(node) == IF Present(node) THEN CHOOSE h \in Handles : At(nodes, h) = node ELSE -1

Edge(edge_type, ns) == [edge_type |-> edge_type, time |-> NoTime, nodes |-> ns]

\* the edges a work order with node handle h brings: BasicStart, a Contains
\* and a Requires per activity, a FinishStart per pair of consecutive
\* activities
WorkOrderEdges(work_order, h) ==
    LET n == Len(work_order.activities)
    IN {Edge("BasicStart", <<h, HandleOf(Node("Day", work_order.basic_start_date))>>)}
       \cup {Edge("Contains", <<h, h + i>>) : i \in 1..n}
       \cup {Edge("Requires", <<h + i, HandleOf(Node("Skill", work_order.activities[i].skill))>>) :
                 i \in 1..n}
       \cup {Edge("FinishStart", <<h + i - 1, h + i>>) : i \in 2..n}

\* C12: a successful add_work_order for a work order with n activities,
\* called with node count h, appends exactly 1+n nodes (WorkOrder at h, the
\* i-th activity's Activity node at h+i) and exactly 1 + 2n + max(n-1, 0)
\* edges: one BasicStart [work_order, basic_start_day], for each activity a
\* Contains [work_order, activity] and a Requires [activity, skill], and for
\* each consecutive pair of activities exactly one FinishStart edge
\* [previous_activity, current_activity]; no precedence edge starts from the
\* last activity, and it returns h.
C12_AddWorkOrderAppends ==
    [][ (Calls("add_work_order") /\ IsOk(last'.res)) =>
          LET work_order == last'.args[1]
              n == Len(work_order.activities)
              h == Len(nodes)
              e == Len(hyperedges)
              added == {hyperedges'[j] : j \in (e + 1)..Len(hyperedges')}
          IN /\ Len(nodes') = h + 1 + n
             /\ SubSeq(nodes', 1, h) = nodes
             /\ At(nodes', h) = Node("WorkOrder", work_order.work_order_number)
             /\ \A i \in 1..n :
                   At(nodes', h + i) = ActivityNode(work_order.activities[i].activity_number,
                                                    work_order.activities[i].number_of_people)
             /\ Len(hyperedges') = e + 1 + 2 * n + (IF n >= 1 THEN n - 1 ELSE 0)
             /\ SubSeq(hyperedges', 1, e) = hyperedges
             /\ added = WorkOrderEdges(work_order, h)
             /\ \A x \in added : x.edge_type = "FinishStart" => x.nodes[1] # h + n
             /\ last'.res.val = h
      ]_vars

\* a work order with three activities has been added after other nodes and edges
C12_Witness ==
    /\ last.op = "add_work_order"
    /\ IsOk(last.res)
    /\ Len(last.args[1].activities) = 3
    /\ last.res.val > PeriodLength
    /\ Cardinality({e \in EdgeHandles : At(hyperedges, e).edge_type = "FinishStart"}) = 2
    /\ \E e \in EdgeHandles : At(hyperedges, e).edge_type = "Available"

C12_WitnessNoActivity ==
    /\ last.op = "add_work_order"
    /\ IsOk(last.res)
    /\ Len(last.args[1].activities) = 0

\* C13: for every work order (with at least one activity, so that
\* activity_count - 1 is a length), the per-gap relation list returned by
\* activities_relations and consumed by add_work_order has length
\* activity_count - 1 (one relation per pair of consecutive activities).
C13_RelationsPerGap ==
    (last.op = "add_work_order" /\ IsOk(last.res) /\ Len(last.args[1].activities) >= 1) =>
        Len(activities_relations(last.args[1])) = Len(last.args[1].activities) - 1

\* C14: add_technician returns WorkerDuplicate if the technician id is
\* already indexed, otherwise SkillMissing if any of the technician's skills
\* has no Skill node, otherwise DayMissing if any calendar date in
\* [availability.start_date, availability.finish_date] inclusive has no Day
\* node (the graph is left as it was by each); it succeeds exactly when none
\* of the three conditions holds.
C14_TechnicianValidationOrder ==
    [][ Calls("add_technician") =>
          LET technician == last'.args[1]
              availability == last'.args[2]
              duplicate == technician.id \in DOMAIN technician_indices
              skill_missing == \E s \in technician.skills : ~Present(Node("Skill", s))
              day_missing == \E d \in availability[1]..availability[2] : ~Present(Node("Day", d))
          IN /\ duplicate => IsErr(last'.res, "WorkerDuplicate") /\ GraphUnchanged
             /\ (~duplicate /\ skill_missing) =>
                    IsErr(last'.res, "SkillMissing") /\ GraphUnchanged
             /\ (~duplicate /\ ~skill_missing /\ day_missing) =>
                    IsErr(last'.res, "DayMissing") /\ GraphUnchanged
             /\ IsOk(last'.res) <=> (~duplicate /\ ~skill_missing /\ ~day_missing)
      ]_vars

\* a skill and a day were missing at once: the fault is SkillMissing
C14_Witness ==
    /\ last.op = "add_technician"
    /\ IsErr(last.res, "SkillMissing")
    /\ \E d \in last.args[2][1]..last.args[2][2] : d \notin DOMAIN day_indices
    /\ DOMAIN skill_indices # {}

\* the id was indexed and a skill was missing at once: the fault is WorkerDuplicate
C14_WitnessDuplicate ==
    /\ last.op = "add_technician"
    /\ IsErr(last.res, "WorkerDuplicate")
    /\ \E s \in last.args[1].skills : s \notin DOMAIN skill_indices

C14_WitnessDayMissing ==
    /\ last.op = "add_technician"
    /\ IsErr(last.res, "DayMissing")
    /\ last.args[2][1] \in DOMAIN day_indices

\* C15: a successful add_technician appends exactly one Technician node and
\* exactly one Available edge whose node list is [technician] followed by the
\* Skill handles of the technician's skills (in the order of the skills)
\* followed by the Day handles of exactly the dates start_date..finish_date
\* inclusive in ascending date order (no Day handle when finish_date is
\* before start_date), and nothing else: the edge is recorded for its nodes
\* and the technician is indexed.
C15_AddTechnicianAppends ==
    [][ (Calls("add_technician") /\ IsOk(last'.res)) =>
          LET technician == last'.args[1]
              availability == last'.args[2]
              h == Len(nodes)
              e == Len(hyperedges)
              skills == SortedSeq(technician.skills)
              dates == SortedSeq(availability[1]..availability[2])
              expected == <<h>> \o [i \in 1..Len(skills) |-> HandleOf(Node("Skill", skills[i]))]
                               \o [i \in 1..Len(dates) |-> HandleOf(Node("Day", dates[i]))]
          IN /\ nodes' = Append(nodes, Node("Technician", technician.id))
             /\ hyperedges' = Append(hyperedges, Edge("Available", expected))
             /\ Len(expected) = 1 + Cardinality(technician.skills)
                                  + (IF availability[2] < availability[1] THEN 0
                                     ELSE availability[2] - availability[1] + 1)
             /\ Len(incidence_list') = h + 1
             /\ \A n \in 0..h :
                   At(incidence_list', n) =
                       (IF n = h THEN <<>> ELSE At(incidence_list, n))
                           \o (IF n \in Range(expected) THEN <<e>> ELSE <<>>)
             /\ technician_indices' = MapInsert(technician_indices, technician.id, h)
             /\ UNCHANGED <<work_order_indices, period_indices, skill_indices, day_indices>>
      ]_vars

\* a technician with both skills and three days has been added, the Skill
\* node of MtnElec being older than that of MtnMech
C15_Witness ==
    /\ last.op = "add_technician"
    /\ IsOk(last.res)
    /\ Len(At(hyperedges, last.res.val).nodes) = 6
    /\ At(hyperedges, last.res.val).nodes[2] > At(hyperedges, last.res.val).nodes[3]

\* a technician whose availability finishes before it starts has been added
C15_WitnessNoDay ==
    /\ last.op = "add_technician"
    /\ IsOk(last.res)
    /\ last.args[2][2] < last.args[2][1]
    /\ Len(At(hyperedges, last.res.val).nodes) = 1

\* one Available edge incident to the node at handle t holds the Day node of
\* every date of days
Covered(t, days) ==
    \E i \in 1..Len(At(incidence_list, t)) :
        LET a == At(hyperedges, At(incidence_list, t)[i])
        IN /\ a.edge_type = "Available"
           /\ \A k \in 1..Len(days) :
                 \E j \in 1..Len(a.nodes) : At(nodes, a.nodes[j]) = Node("Day", days[k])

\* the technician id is not in the graph, or its node is not Covered
Fails(technician_id, days) ==
    \/ technician_id \notin DOMAIN technician_indices
    \/ ~Covered(technician_indices[technician_id], days)

\* the technician nodes of an Assign edge with a time window are each in an
\* Available edge that holds all the Day nodes of the Assign edge
AssignmentsCovered ==
    \A e \in EdgeHandles :
        LET assign == At(hyperedges, e)
        IN (assign.edge_type = "Assign" /\ assign.time # NoTime) =>
              \A i \in 1..Len(assign.nodes) :
                  At(nodes, assign.nodes[i]).kind = "Technician" =>
                      \E a \in EdgeHandles :
                          /\ At(hyperedges, a).edge_type = "Available"
                          /\ assign.nodes[i] \in Range(At(hyperedges, a).nodes)
                          /\ \A j \in 1..Len(assign.nodes) :
                                At(nodes, assign.nodes[j]).kind = "Day" =>
                                    assign.nodes[j] \in Range(At(hyperedges, a).nodes)

\* C16: add_assignment_activity enforces availability coverage: when all
\* requested days exist and the technicians are looked up in list order, the
\* first technician that has no single incident Available edge whose Day
\* nodes include every requested day (the ids before it being in the graph
\* and covered) makes the call return WorkerUnavailable without creating an
\* edge.  Consequently, in every reachable graph, for every Assign edge with
\* a time window and every technician in it, one Available edge of that
\* technician contains all Day nodes of the Assign edge.
C16_AvailabilityCoverage ==
    /\ []AssignmentsCovered
    /\ [][ Calls("add_assignment_activity") =>
             LET technicians == last'.args[1]
                 days == last'.args[4]
                 failing == {i \in 1..Len(technicians) : Fails(technicians[i], days)}
             IN ((\A k \in 1..Len(days) : Present(Node("Day", days[k])))
                    /\ failing # {}
                    /\ technicians[Min(failing)] \in DOMAIN technician_indices)
                 => IsErr(last'.res, "WorkerUnavailable") /\ GraphUnchanged
         ]_vars

\* the second technician of the list was the first without coverage, and an
\* assignment with a time window exists
C16_Witness ==
    /\ last.op = "add_assignment_activity"
    /\ IsErr(last.res, "WorkerUnavailable")
    /\ Len(last.args[1]) = 2
    /\ ~Fails(last.args[1][1], last.args[4])
    /\ last.args[1][2] \in DOMAIN technician_indices
    /\ \E e \in EdgeHandles : At(hyperedges, e).edge_type = "Assign" /\ At(hyperedges, e).time # NoTime

\* a technician whose Available edge holds one of the two requested days only
C16_WitnessPartial ==
    /\ last.op = "add_assignment_activity"
    /\ IsErr(last.res, "WorkerUnavailable")
    /\ Len(last.args[4]) = 2
    /\ Covered(technician_indices[last.args[1][1]], <<last.args[4][1]>>)

\* the Activity nodes with activity_number that a Contains edge joins to the
\* node of work_order_number
ActivitiesOf(work_order_number, activity_number) ==
    {a \in Handles :
        /\ At(nodes, a).kind = "Activity"
        /\ At(nodes, a).key = activity_number
        /\ Present(Node("WorkOrder", work_order_number))
        /\ \E e \in EdgeHandles :
              At(hyperedges, e) = Edge("Contains", <<HandleOf(Node("WorkOrder", work_order_number)), a>>)}

\* C17: add_assignment_activity runs its checks as whole steps in the order:
\* resolve every day (DayMissing), resolve every technician id
\* (WorkerMissing), availability coverage of each technician
\* (WorkerUnavailable), activity resolution (ActivityMissing, or
\* WorkOrderMissing when the work order is absent), headcount
\* (ActivityExceedNumberOfPeople); the fault returned is that of the first
\* failing step.  In particular, if all requested days exist and any listed
\* technician id is not in the graph, the result is WorkerMissing regardless
\* of the other technicians' availability.
C17_WholeStepOrder ==
    [][ Calls("add_assignment_activity") =>
          LET technicians == last'.args[1]
              days == last'.args[4]
              activities == ActivitiesOf(last'.args[2], last'.args[3])
              days_resolve == \A k \in 1..Len(days) : Present(Node("Day", days[k]))
              ids_resolve == \A i \in 1..Len(technicians) :
                                 technicians[i] \in DOMAIN technician_indices
              all_covered == \A i \in 1..Len(technicians) : ~Fails(technicians[i], days)
              within_headcount == \A a \in activities : Len(technicians) <= At(nodes, a).people
          IN /\ ~days_resolve => IsErr(last'.res, "DayMissing")
             /\ (days_resolve /\ ~ids_resolve) => IsErr(last'.res, "WorkerMissing")
             /\ (days_resolve /\ ids_resolve /\ ~all_covered) =>
                    IsErr(last'.res, "WorkerUnavailable")
             /\ (days_resolve /\ ids_resolve /\ all_covered /\ activities = {}) =>
                    \/ IsErr(last'.res, "ActivityMissing")
                    \/ /\ IsErr(last'.res, "WorkOrderMissing")
                       /\ ~Present(Node("WorkOrder", last'.args[2]))
             /\ (days_resolve /\ ids_resolve /\ all_covered /\ activities # {}
                    /\ ~within_headcount) =>
                    IsErr(last'.res, "ActivityExceedNumberOfPeople")
      ]_vars

\* the days resolve and every listed technician is in the graph and covered:
\* add_assignment_activity gets to the resolution of the activity
ReachesActivity(technicians, days) ==
    /\ \A k \in 1..Len(days) : Present(Node("Day", days[k]))
    /\ \A i \in 1..Len(technicians) : ~Fails(technicians[i], days)

\* the technician entries of a hyperedge's node list
TechnicianEntries(hyperedge) ==
    {i \in 1..Len(hyperedge.nodes) : At(nodes, hyperedge.nodes[i]).kind = "Technician"}

\* C18: add_assignment_activity returns ActivityExceedNumberOfPeople and
\* creates no edge when the number of listed technicians exceeds the resolved
\* activity's required headcount; consequently every Assign edge with a time
\* window lists at most required_headcount technician entries for its
\* activity (the Activity node at its head).
C18_Headcount ==
    /\ [](\A e \in EdgeHandles :
             LET assign == At(hyperedges, e)
             IN (assign.edge_type = "Assign" /\ assign.time # NoTime) =>
                   /\ At(nodes, assign.nodes[1]).kind = "Activity"
                   /\ Cardinality(TechnicianEntries(assign)) <= At(nodes, assign.nodes[1]).people)
    /\ [][ Calls("add_assignment_activity") =>
             LET technicians == last'.args[1]
                 activities == ActivitiesOf(last'.args[2], last'.args[3])
             IN (ReachesActivity(technicians, last'.args[4]) /\ activities # {}
                    /\ Len(technicians) > At(nodes, Min(activities)).people)
                 => IsErr(last'.res, "ActivityExceedNumberOfPeople") /\ GraphUnchanged
         ]_vars

\* two covered technicians were refused for an activity of one person, while
\* an assignment of two technicians to an activity of two exists
C18_Witness ==
    /\ last.op = "add_assignment_activity"
    /\ IsErr(last.res, "ActivityExceedNumberOfPeople")
    /\ Len(last.args[1]) = 2
    /\ \E e \in EdgeHandles :
          /\ At(hyperedges, e).edge_type = "Assign"
          /\ At(hyperedges, e).time # NoTime
          /\ Cardinality(TechnicianEntries(At(hyperedges, e))) = 2

\* C19: a successful add_assignment_activity with m technicians and k days
\* appends exactly one edge of kind Assign(Some(start_time, finish_time)) and
\* no node; its node list has length 1+m+k and is [activity] followed by the
\* technician handles in request order followed by the Day handles in request
\* order; the returned handle is that edge's handle and it appears in the
\* incidence sequence of the activity, of every listed technician and of
\* every listed day.
C19_AddAssignmentActivityAppends ==
    [][ (Calls("add_assignment_activity") /\ IsOk(last'.res)) =>
          LET technicians == last'.args[1]
              days == last'.args[4]
              m == Len(technicians)
              k == Len(days)
              e == Len(hyperedges)
              assign == At(hyperedges', e)
          IN /\ nodes' = nodes
             /\ Len(hyperedges') = e + 1
             /\ SubSeq(hyperedges', 1, e) = hyperedges
             /\ last'.res.val = e
             /\ assign.edge_type = "Assign"
             /\ assign.time = last'.args[5]
             /\ assign.time # NoTime
             /\ Len(assign.nodes) = 1 + m + k
             /\ At(nodes, assign.nodes[1]).kind = "Activity"
             /\ \A i \in 1..m : At(nodes, assign.nodes[1 + i]) = Node("Technician", technicians[i])
             /\ \A i \in 1..k : At(nodes, assign.nodes[1 + m + i]) = Node("Day", days[i])
             /\ \A i \in 1..(1 + m + k) : e \in Range(At(incidence_list', assign.nodes[i]))
             /\ UNCHANGED <<technician_indices, work_order_indices, period_indices,
                            skill_indices, day_indices>>
      ]_vars

\* two technicians have been assigned for one day, after another assignment
C19_Witness ==
    /\ last.op = "add_assignment_activity"
    /\ IsOk(last.res)
    /\ Len(last.args[1]) = 2
    /\ Len(At(hyperedges, last.res.val).nodes) = 4
    /\ \E e \in EdgeHandles : /\ e < last.res.val
                              /\ At(hyperedges, e).edge_type = "Assign"

\* one technician has been assigned for two days, the later one listed first
C19_WitnessTwoDays ==
    /\ last.op = "add_assignment_activity"
    /\ IsOk(last.res)
    /\ Len(last.args[4]) = 2
    /\ last.args[4][1] > last.args[4][2]

\* an assignment without technician and without day
C19_WitnessEmpty ==
    /\ last.op = "add_assignment_activity"
    /\ IsOk(last.res)
    /\ Len(At(hyperedges, last.res.val).nodes) = 1

\* C20: add_assignment_activity resolves the activity within the scope of the
\* named work order only: the activity node at the head of the created Assign
\* edge is an Activity node with the requested activity_number that is joined
\* by a Contains edge to the node of work_order_number.  When the call gets to
\* the resolution (the days resolve, the technicians are in the graph and
\* covered): if that work order has no such activity the call returns
\* ActivityMissing even when another work order contains an activity with
\* that number, and if the work order itself is absent it returns
\* WorkOrderMissing; the graph is left as it was by both.
C20_ActivityScope ==
    [][ Calls("add_assignment_activity") =>
          LET work_order_number == last'.args[2]
              activities == ActivitiesOf(work_order_number, last'.args[3])
              reaches == ReachesActivity(last'.args[1], last'.args[4])
          IN /\ IsOk(last'.res) =>
                    At(hyperedges', last'.res.val).nodes[1] \in activities
             /\ (reaches /\ Present(Node("WorkOrder", work_order_number)) /\ activities = {}) =>
                    IsErr(last'.res, "ActivityMissing") /\ GraphUnchanged
             /\ (reaches /\ ~Present(Node("WorkOrder", work_order_number))) =>
                    IsErr(last'.res, "WorkOrderMissing") /\ GraphUnchanged
      ]_vars

\* ActivityMissing was returned while another work order contains an
\* activity with the requested number
C20_Witness ==
    /\ last.op = "add_assignment_activity"
    /\ IsErr(last.res, "ActivityMissing")
    /\ Present(Node("WorkOrder", last.args[2]))
    /\ \E h \in Handles : At(nodes, h).kind = "Activity" /\ At(nodes, h).key = last.args[3]

\* the activity was resolved in the named work order although an older
\* Activity node of another work order carries the same number
C20_WitnessSameNumber ==
    /\ last.op = "add_assignment_activity"
    /\ IsOk(last.res)
    /\ \E h \in Handles : /\ h < At(hyperedges, last.res.val).nodes[1]
                          /\ At(nodes, h).kind = "Activity"
                          /\ At(nodes, h).key = last.args[3]

C20_WitnessWorkOrderMissing ==
    /\ last.op = "add_assignment_activity"
    /\ IsErr(last.res, "WorkOrderMissing")
    /\ Len(last.args[1]) > 0
    /\ DOMAIN work_order_indices # {}

\* C21: add_assignment_work_order looks up worker, then work order, then
\* period and returns WorkerMissing, WorkOrderMissing or PeriodMissing for the
\* first one that is absent (leaving the graph as it was); on success it
\* appends exactly one hyperedge Assign(None) with node list [worker,
\* work_order, period], adds no node, and returns that edge's handle (the
\* hyperedge count before the call).
C21_AssignmentWorkOrder ==
    [][ Calls("add_assignment_work_order") =>
          LET worker == Node("Technician", last'.args[1])
              work_order == Node("WorkOrder", last'.args[2])
              period == Node("Period", last'.args[3])
          IN /\ ~Present(worker) => IsErr(last'.res, "WorkerMissing") /\ GraphUnchanged
             /\ (Present(worker) /\ ~Present(work_order)) =>
                    IsErr(last'.res, "WorkOrderMissing") /\ GraphUnchanged
             /\ (Present(worker) /\ Present(work_order) /\ ~Present(period)) =>
                    IsErr(last'.res, "PeriodMissing") /\ GraphUnchanged
             /\ (Present(worker) /\ Present(work_order) /\ Present(period)) =>
                    /\ IsOk(last'.res)
                    /\ last'.res.val = Len(hyperedges)
                    /\ hyperedges' = Append(hyperedges,
                           Edge("Assign", <<HandleOf(worker), HandleOf(work_order), HandleOf(period)>>))
                    /\ nodes' = nodes
                    /\ UNCHANGED <<technician_indices, work_order_indices, period_indices,
                                   skill_indices, day_indices>>
      ]_vars

\* a work order has been assigned to a technician for a period, after
\* another relation edge
C21_Witness ==
    /\ last.op = "add_assignment_work_order"
    /\ IsOk(last.res)
    /\ At(hyperedges, last.res.val).time = NoTime
    /\ \E e \in EdgeHandles : e < last.res.val /\ At(hyperedges, e).edge_type = "Exclude"

\* the work order and the period were absent at once: WorkOrderMissing
C21_WitnessOrder ==
    /\ last.op = "add_assignment_work_order"
    /\ IsErr(last.res, "WorkOrderMissing")
    /\ last.args[3] \notin DOMAIN period_indices

\* C22: add_assign_skill_to_worker returns WorkerMissing if the technician id
\* is not indexed, otherwise SkillMissing if the skill has no Skill node, and
\* otherwise appends exactly one HasSkill edge [worker, skill] and returns
\* its handle; it never creates a Skill or Technician node.
C22_AssignSkillToWorker ==
    [][ Calls("add_assign_skill_to_worker") =>
          LET worker == last'.args[1]
              skill == Node("Skill", last'.args[2])
          IN /\ nodes' = nodes
             /\ worker \notin DOMAIN technician_indices =>
                    IsErr(last'.res, "WorkerMissing") /\ GraphUnchanged
             /\ (worker \in DOMAIN technician_indices /\ ~Present(skill)) =>
                    IsErr(last'.res, "SkillMissing") /\ GraphUnchanged
             /\ (worker \in DOMAIN technician_indices /\ Present(skill)) =>
                    /\ IsOk(last'.res)
                    /\ last'.res.val = Len(hyperedges)
                    /\ hyperedges' = Append(hyperedges,
                           Edge("HasSkill", <<HandleOf(Node("Technician", worker)), HandleOf(skill)>>))
                    /\ UNCHANGED <<technician_indices, work_order_indices, period_indices,
                                   skill_indices, day_indices>>
      ]_vars

\* a technician has been given a skill that its Available edge does not list
C22_Witness ==
    /\ last.op = "add_assign_skill_to_worker"
    /\ IsOk(last.res)
    /\ \E e \in EdgeHandles :
          /\ At(hyperedges, e).edge_type = "Available"
          /\ At(hyperedges, e).nodes[1] = At(hyperedges, last.res.val).nodes[1]
          /\ At(hyperedges, last.res.val).nodes[2] \notin Range(At(hyperedges, e).nodes)

\* the technician is in the graph, the skill is not
C22_WitnessSkillMissing ==
    /\ last.op = "add_assign_skill_to_worker"
    /\ IsErr(last.res, "SkillMissing")

\* neither is in the graph
C22_WitnessBothMissing ==
    /\ last.op = "add_assign_skill_to_worker"
    /\ IsErr(last.res, "WorkerMissing")
    /\ last.args[2] \notin DOMAIN skill_indices
    /\ Len(nodes) > 0

\* C23: add_exclusion returns WorkOrderMissing if the work-order number is
\* not indexed, otherwise PeriodMissing if the period is not indexed (the
\* graph is left as it was); on success it appends exactly one Exclude edge
\* whose node list is [work_order, period] followed by the Day handles of the
\* dates period.start_date .. period.start_date+13 inclusive in ascending
\* date order.  For any period added through add_period this is exactly 14
\* Day handles (16 nodes in total), and the edge handle appears in the
\* incidence sequences of the work order and the period.
C23_AddExclusion ==
    [][ Calls("add_exclusion") =>
          LET work_order_number == last'.args[1]
              period == last'.args[2]
              e == Len(hyperedges)
              exclude == At(hyperedges', e)
          IN /\ work_order_number \notin DOMAIN work_order_indices =>
                    IsErr(last'.res, "WorkOrderMissing") /\ GraphUnchanged
             /\ (work_order_number \in DOMAIN work_order_indices
                    /\ period \notin DOMAIN period_indices) =>
                    IsErr(last'.res, "PeriodMissing") /\ GraphUnchanged
             /\ (work_order_number \in DOMAIN work_order_indices
                    /\ period \in DOMAIN period_indices) =>
                    /\ IsOk(last'.res)
                    /\ last'.res.val = e
                    /\ Len(hyperedges') = e + 1
                    /\ SubSeq(hyperedges', 1, e) = hyperedges
                    /\ nodes' = nodes
                    /\ exclude.edge_type = "Exclude"
                    /\ Len(exclude.nodes) = 16
                    /\ At(nodes, exclude.nodes[1]) = Node("WorkOrder", work_order_number)
                    /\ At(nodes, exclude.nodes[2]) = Node("Period", period)
                    /\ \A i \in 0..13 : At(nodes, exclude.nodes[3 + i]) = Node("Day", period + i)
                    /\ e \in Range(At(incidence_list', exclude.nodes[1]))
                    /\ e \in Range(At(incidence_list', exclude.nodes[2]))
      ]_vars

\* a work order has been excluded from the first of two adjacent periods
C23_Witness ==
    /\ last.op = "add_exclusion"
    /\ IsOk(last.res)
    /\ Len(At(hyperedges, last.res.val).nodes) = 16
    /\ (last.args[2] + PeriodLength) \in DOMAIN period_indices

C23_WitnessPeriodMissing ==
    /\ last.op = "add_exclusion"
    /\ IsErr(last.res, "PeriodMissing")
    /\ DOMAIN period_indices # {}

\* C24: add_exclusion fails when an Exclude hyperedge between the same work
\* order and the same period already exists, so the graph never holds two
\* Exclude edges for one (work order, period) pair.
C24_NoDuplicateExclusion ==
    \A e1 \in EdgeHandles : \A e2 \in EdgeHandles :
        (/\ At(hyperedges, e1).edge_type = "Exclude"
         /\ At(hyperedges, e2).edge_type = "Exclude"
         /\ At(hyperedges, e1).nodes[1] = At(hyperedges, e2).nodes[1]
         /\ At(hyperedges, e1).nodes[2] = At(hyperedges, e2).nodes[2])
            => e1 = e2

\* the entries of a hyperedge's node list that make it an assignment of
\* period P for find_all_assignments_for_period: a Period node equal to P or
\* a Day node with P.start_date <= date < P.start_date + 13 days
QualifyingEntries(hyperedge, P) ==
    {i \in 1..Len(hyperedge.nodes) :
        LET n == At(nodes, hyperedge.nodes[i])
        IN \/ n = Node("Period", P)
           \/ (n.kind = "Day" /\ P <= n.key /\ n.key < P + 13)}

Occurrences(s, x) == Cardinality({i \in 1..Len(s) : s[i] = x})

\* C25: for an existing period P, find_all_assignments_for_period(P) returns
\* exactly this sequence: for each Assign-kind hyperedge in creation order,
\* its handle once for every entry of its node list that is a Period node
\* equal to P or a Day node with P.start_date <= date < P.start_date + 13
\* days.  Handles of non-Assign edges never appear, the sequence is
\* non-decreasing, a handle is repeated once per qualifying node, and the
\* graph is left unchanged.
C25_FindAllAssignments ==
    [][ (Calls("find_all_assignments_for_period") /\ Present(Node("Period", last'.args[1]))) =>
          LET P == last'.args[1]
              found == last'.res.list
          IN /\ IsOk(last'.res)
             /\ GraphUnchanged
             /\ \A i \in 1..Len(found) :
                   /\ found[i] \in EdgeHandles
                   /\ At(hyperedges, found[i]).edge_type = "Assign"
             /\ \A i \in 1..Len(found) : \A j \in i..Len(found) : found[i] <= found[j]
             /\ \A e \in EdgeHandles :
                   At(hyperedges, e).edge_type = "Assign" =>
                       Occurrences(found, e) = Cardinality(QualifyingEntries(At(hyperedges, e), P))
      ]_vars

\* an assignment with two days of the period is returned twice
C25_Witness ==
    /\ last.op = "find_all_assignments_for_period"
    /\ IsOk(last.res)
    /\ Len(last.res.list) >= 2
    /\ last.res.list[1] = last.res.list[2]

\* two assignments of the period are returned in creation order, other edges
\* having been created between them
C25_WitnessTwoEdges ==
    /\ last.op = "find_all_assignments_for_period"
    /\ IsOk(last.res)
    /\ Len(last.res.list) = 2
    /\ last.res.list[1] < last.res.list[2]

\* an assignment of another period, and one on the day P.start_date + 13,
\* are not returned
C25_WitnessOutside ==
    /\ last.op = "find_all_assignments_for_period"
    /\ IsOk(last.res)
    /\ \E e \in EdgeHandles :
          /\ At(hyperedges, e).edge_type = "Assign"
          /\ e \notin Range(last.res.list)
          /\ \E i \in 1..Len(At(hyperedges, e).nodes) :
                At(nodes, At(hyperedges, e).nodes[i]) = Node("Day", last.args[1] + 13)

\* C26: an assignment whose day lies in the period interval belongs to that
\* period: for a period P added with add_period, every Assign edge that lists
\* a Day node for any of P's 14 dates (P.start_date .. P.start_date+13
\* inclusive, the same days add_period creates and add_exclusion covers) is
\* contained in the result of find_all_assignments_for_period(P).
C26_PeriodDaysFound ==
    (last.op = "find_all_assignments_for_period" /\ last.args[1] \in DOMAIN period_indices) =>
        /\ IsOk(last.res)
        /\ \A e \in EdgeHandles :
              (/\ At(hyperedges, e).edge_type = "Assign"
               /\ \E i \in 1..Len(At(hyperedges, e).nodes) :
                     LET n == At(nodes, At(hyperedges, e).nodes[i])
                     IN n.kind = "Day" /\ last.args[1] <= n.key
                                       /\ n.key <= last.args[1] + (PeriodLength - 1))
                  => e \in Range(last.res.list)

\* every entry of the index before is in the index after with the same handle
EntriesKept(before, after) ==
    \A k \in DOMAIN before : k \in DOMAIN after /\ after[k] = before[k]

\* every key that after has and before has not maps to the handle of a node
\* appended by the step, which carries the key
EntriesFresh(before, after, kind) ==
    \A k \in (DOMAIN after) \ (DOMAIN before) :
        /\ after[k] \in Len(nodes)..(Len(nodes') - 1)
        /\ At(nodes', after[k]) = Node(kind, k)

\* C27: the graph is append-only with stable, dense handles: across every
\* step of any operation sequence, node count and hyperedge count never
\* decrease, every node and every hyperedge (kind and node list) that
\* existed before the step is unchanged at the same handle, every index
\* entry keeps its handle (in every step of a call that returns: a call that
\* panics has no graph left), and a newly created node or edge receives as
\* handle the arena length at the moment it is appended: the new index
\* entries and the new incidence entries are handles past the old lengths.
C27_AppendOnly ==
    [][ /\ Len(nodes') >= Len(nodes)
        /\ SubSeq(nodes', 1, Len(nodes)) = nodes
        /\ Len(hyperedges') >= Len(hyperedges)
        /\ SubSeq(hyperedges', 1, Len(hyperedges)) = hyperedges
        /\ \A n \in 0..(Len(incidence_list) - 1) :
              /\ Len(At(incidence_list', n)) >= Len(At(incidence_list, n))
              /\ SubSeq(At(incidence_list', n), 1, Len(At(incidence_list, n))) = At(incidence_list, n)
        /\ \A n \in 0..(Len(incidence_list') - 1) :
              \A i \in 1..Len(At(incidence_list', n)) :
                  (n >= Len(incidence_list) \/ i > Len(At(incidence_list, n))) =>
                      At(incidence_list', n)[i] \in Len(hyperedges)..(Len(hyperedges') - 1)
        /\ ~aborted' =>
              /\ EntriesKept(technician_indices, technician_indices')
              /\ EntriesKept(work_order_indices, work_order_indices')
              /\ EntriesKept(period_indices, period_indices')
              /\ EntriesKept(skill_indices, skill_indices')
              /\ EntriesKept(day_indices, day_indices')
              /\ EntriesFresh(technician_indices, technician_indices', "Technician")
              /\ EntriesFresh(work_order_indices, work_order_indices', "WorkOrder")
              /\ EntriesFresh(period_indices, period_indices', "Period")
              /\ EntriesFresh(skill_indices, skill_indices', "Skill")
              /\ EntriesFresh(day_indices, day_indices', "Day")
      ]_vars

\* nodes of every kind and edges have been appended after one another
C27_Witness ==
    /\ \A kind \in {"Technician", "WorkOrder", "Activity", "Period", "Skill", "Day"} :
          \E h \in Handles : At(nodes, h).kind = kind
    /\ Len(hyperedges) >= 10
    /\ last.op = "add_technician"
    /\ IsOk(last.res)
    /\ last.res.val = Len(hyperedges) - 1
    /\ At(nodes, Len(nodes) - 1).kind = "Technician"

\* C28: in every reachable graph state, every node handle in every
\* hyperedge's node list refers to an existing node (handle < node count);
\* in particular the usize::MAX placeholder used for the previous activity in
\* add_work_order (-1 here) never appears in an edge.
C28_EdgeHandlesExist ==
    \A e \in EdgeHandles :
        \A i \in 1..Len(At(hyperedges, e).nodes) :
            /\ At(hyperedges, e).nodes[i] \in Handles
            /\ At(hyperedges, e).nodes[i] # -1

\* precedence edges and an Assign(None) edge, which is not made through
\* add_edge, exist
C28_Witness ==
    \/ /\ Cardinality({e \in EdgeHandles : At(hyperedges, e).edge_type = "FinishStart"}) = 2
       /\ \E e \in EdgeHandles : At(hyperedges, e).edge_type = "Assign"
    \/ /\ \E e \in EdgeHandles : ~ThroughAddEdge(e)
       /\ \E e \in EdgeHandles : At(hyperedges, e).edge_type = "Exclude"

\* C29 (as claimed, stated for the calls in which the activity loop can
\* fail): operations are not transactional: an add_work_order that passes the
\* day and duplicate checks for a work order with an activity whose skill has
\* no Skill node returns the fault of its activity loop (SkillMissing) after
\* it has appended the WorkOrder node and its BasicStart edge, and that node,
\* edge and index entry remain in the graph afterwards.
C29_LoopFaultLeavesWorkOrder ==
    [][ (/\ Calls("add_work_order")
         /\ ~ActivitySkillsPresent(last'.args[1])
         /\ Present(Node("Day", last'.args[1].basic_start_date))
         /\ last'.args[1].work_order_number \notin DOMAIN work_order_indices) =>
            /\ IsErr(last'.res, "SkillMissing")
            /\ Len(nodes') > Len(nodes)
            /\ At(nodes', Len(nodes)) = Node("WorkOrder", last'.args[1].work_order_number)
            /\ Len(hyperedges') > Len(hyperedges)
            /\ At(hyperedges', Len(hyperedges)).edge_type = "BasicStart"
            /\ last'.args[1].work_order_number \in DOMAIN work_order_indices'
      ]_vars

\* C29 (amended): add_work_order never returns a fault from inside its
\* activity loop: every fault it returns is one of its three checks
\* (WorkOrderActivityMissingSkills, DayMissing, WorkOrderDuplicate), returned
\* before the WorkOrder node is appended, and leaves nodes, edges, incidence
\* list and indices as they were; it never returns SkillMissing and never
\* panics.
C29_WorkOrderFaultsBeforeMutation ==
    [][ Calls("add_work_order") =>
          /\ last'.res.tag \in {"Ok", "Err"}
          /\ last'.res.tag = "Err" =>
                /\ last'.res.err \in {"WorkOrderActivityMissingSkills", "DayMissing",
                                      "WorkOrderDuplicate"}
                /\ GraphUnchanged
      ]_vars

\* a call for a work order whose first activity's skill has a Skill node and
\* whose second has none, on an existing day with a free number: the loop
\* would have failed at the second activity
C29_Witness ==
    /\ last.op = "add_work_order"
    /\ last.res.tag = "Err"
    /\ Len(last.args[1].activities) >= 2
    /\ last.args[1].activities[1].skill \in DOMAIN skill_indices
    /\ last.args[1].activities[2].skill \notin DOMAIN skill_indices
    /\ last.args[1].basic_start_date \in DOMAIN day_indices
    /\ last.args[1].work_order_number \notin DOMAIN work_order_indices

\* C30: whenever any public operation returns a fault value (any
\* ScheduleGraphErrors variant from add_period, add_work_order,
\* add_technician, add_assignment_work_order, add_assignment_activity,
\* add_assign_skill_to_worker, add_exclusion or
\* find_all_assignments_for_period), the whole graph state (nodes,
\* hyperedges, incidence list and the five indices) is identical to the state
\* before the call, because every validation runs before the first mutation.
C30_FaultLeavesGraph ==
    [][ (last.op = "idle" /\ last'.op # "idle" /\ last'.res.tag = "Err") =>
           /\ nodes' = nodes
           /\ hyperedges' = hyperedges
           /\ incidence_list' = incidence_list
           /\ technician_indices' = technician_indices
           /\ work_order_indices' = work_order_indices
           /\ period_indices' = period_indices
           /\ skill_indices' = skill_indices
           /\ day_indices' = day_indices
      ]_vars

\* the last check of the longest validation has failed, on a graph with
\* nodes and edges of several kinds
C30_Witness ==
    /\ last.op = "add_assignment_activity"
    /\ IsErr(last.res, "ActivityExceedNumberOfPeople")
    /\ Len(hyperedges) >= 10

\* a technician was refused for a missing day, its skills being in the graph
C30_WitnessTechnician ==
    /\ last.op = "add_technician"
    /\ IsErr(last.res, "DayMissing")
    /\ last.args[1].skills # {}
    /\ last.args[1].id \notin DOMAIN technician_indices

\* C31: on success add_technician returns the node handle of the Technician
\* node it created, i.e. nodes[result] == Technician(id), in the same way
\* that add_period and add_work_order return the handle of their Period and
\* WorkOrder node.
C31_TechnicianHandleReturned ==
    [][ (Calls("add_technician") /\ IsOk(last'.res)) =>
           /\ last'.res.val \in 0..(Len(nodes') - 1)
           /\ At(nodes', last'.res.val) = Node("Technician", last'.args[1].id)
      ]_vars

\* the kinds of the nodes an edge lists, in the order of the list
KindsOf(hyperedge) ==
    [i \in 1..Len(hyperedge.nodes) |->
        IF hyperedge.nodes[i] \in Handles THEN At(nodes, hyperedge.nodes[i]).kind ELSE "None"]

\* kinds is exactly the list fixed
Fixed(kinds, fixed) == kinds = fixed

\* kinds is head, then any number of first, then any number of second
HeadThenRuns(kinds, head, first, second) ==
    /\ Len(kinds) >= Len(head)
    /\ SubSeq(kinds, 1, Len(head)) = head
    /\ \E m \in Len(head)..Len(kinds) :
          /\ \A i \in (Len(head) + 1)..m : kinds[i] = first
          /\ \A i \in (m + 1)..Len(kinds) : kinds[i] = second

\* the positional schema of the edge's kind
MatchesSchema(hyperedge) ==
    LET kinds == KindsOf(hyperedge)
        t == hyperedge.edge_type
    IN CASE t = "BasicStart" -> Fixed(kinds, <<"WorkOrder", "Day">>)
         [] t = "Contains" -> Fixed(kinds, <<"WorkOrder", "Activity">>)
         [] t = "Requires" -> Fixed(kinds, <<"Activity", "Skill">>)
         [] t \in {"StartStart", "FinishStart"} -> Fixed(kinds, <<"Activity", "Activity">>)
         [] t = "HasSkill" -> Fixed(kinds, <<"Technician", "Skill">>)
         [] t = "Available" -> HeadThenRuns(kinds, <<"Technician">>, "Skill", "Day")
         [] t = "Exclude" -> HeadThenRuns(kinds, <<"WorkOrder", "Period">>, "Day", "Day")
         [] t = "Assign" /\ hyperedge.time = NoTime ->
                Fixed(kinds, <<"Technician", "WorkOrder", "Period">>)
         [] t = "Assign" /\ hyperedge.time # NoTime ->
                HeadThenRuns(kinds, <<"Activity">>, "Technician", "Day")
         [] OTHER -> FALSE

\* C32: in every graph reachable through the public operations, each
\* hyperedge's node list matches the positional schema of its kind:
\* BasicStart = [WorkOrder, Day]; Contains = [WorkOrder, Activity];
\* Requires = [Activity, Skill]; StartStart and FinishStart = [Activity,
\* Activity]; HasSkill = [Technician, Skill]; Available = [Technician, Skill*,
\* Day*]; Exclude = [WorkOrder, Period, Day*]; Assign(None) = [Technician,
\* WorkOrder, Period]; Assign(Some) = [Activity, Technician*, Day*].
C32_EdgeSchemas == \A e \in EdgeHandles : MatchesSchema(At(hyperedges, e))

\* a graph with an Available edge of two skills and several days, a
\* precedence edge between activities and a timed Assign edge of two
\* technicians
C32_Witness ==
    /\ \E e \in EdgeHandles :
          /\ At(hyperedges, e).edge_type = "Available"
          /\ Cardinality({i \in 1..Len(At(hyperedges, e).nodes) :
                             KindsOf(At(hyperedges, e))[i] = "Skill"}) = 2
          /\ Cardinality({i \in 1..Len(At(hyperedges, e).nodes) :
                             KindsOf(At(hyperedges, e))[i] = "Day"}) >= 2
    /\ \E e \in EdgeHandles : At(hyperedges, e).edge_type = "FinishStart"
    /\ \E e \in EdgeHandles :
          /\ At(hyperedges, e).edge_type = "Assign"
          /\ At(hyperedges, e).time # NoTime
          /\ Cardinality({i \in 1..Len(At(hyperedges, e).nodes) :
                             KindsOf(At(hyperedges, e))[i] = "Technician"}) = 2

\* a graph with an Exclude edge over the days of its period and an untimed
\* Assign edge
C32_WitnessRelations ==
    /\ \E e \in EdgeHandles :
          /\ At(hyperedges, e).edge_type = "Exclude"
          /\ Len(At(hyperedges, e).nodes) > 2
    /\ \E e \in EdgeHandles :
          /\ At(hyperedges, e).edge_type = "Assign"
          /\ At(hyperedges, e).time = NoTime

\* a graph with a HasSkill edge and a timed Assign edge
C32_WitnessHasSkill ==
    /\ \E e \in EdgeHandles : At(hyperedges, e).edge_type = "HasSkill"
    /\ \E e \in EdgeHandles :
          /\ At(hyperedges, e).edge_type = "Assign"
          /\ At(hyperedges, e).time # NoTime

\* the Available edges whose head is the node h
AvailableEdgesOf(h) ==
    {e \in EdgeHandles : /\ At(hyperedges, e).edge_type = "Available"
                         /\ At(hyperedges, e).nodes # <<>>
                         /\ At(hyperedges, e).nodes[1] = h}

\* C33: in every graph reachable through the public operations, every
\* Technician node is the head of exactly one Available edge, created
\* together with the node, and no later operation adds, replaces or extends a
\* technician's availability: the edges already in the graph stay as they
\* are, and an Available edge that a step appends has a node of that step as
\* its head.
C33_OneAvailability ==
    /\ [](\A h \in Handles :
             At(nodes, h).kind = "Technician" => Cardinality(AvailableEdgesOf(h)) = 1)
    /\ [][ /\ Len(hyperedges') >= Len(hyperedges)
           /\ SubSeq(hyperedges', 1, Len(hyperedges)) = hyperedges
           /\ \A e \in (Len(hyperedges) + 1)..Len(hyperedges') :
                 hyperedges'[e].edge_type = "Available" =>
                    /\ hyperedges'[e].nodes[1] >= Len(nodes)
                    /\ nodes'[hyperedges'[e].nodes[1] + 1].kind = "Technician"
         ]_vars

\* two technicians are in the graph, each with its availability, and a later
\* operation on one of them has succeeded
C33_Witness ==
    /\ Cardinality(DOMAIN technician_indices) = 2
    /\ last.op \in {"add_assign_skill_to_worker", "add_assignment_activity"}
    /\ IsOk(last.res)
    /\ \E e \in EdgeHandles : Len(At(hyperedges, e).nodes) >= 3
                              /\ At(hyperedges, e).edge_type = "Available"

\* C34: in every graph reachable through the public operations, no node's
\* incidence sequence contains the same edge handle twice, and each incidence
\* sequence is strictly increasing in edge handle (edge creation order).
C34_IncidenceStrictlyIncreasing ==
    \A n \in Handles :
        \A i, j \in 1..Len(At(incidence_list, n)) :
            i < j => At(incidence_list, n)[i] < At(incidence_list, n)[j]

\* the timed Assign edges whose head is the Activity node a
AssignEdgesOf(a) ==
    {e \in EdgeHandles : /\ At(hyperedges, e).edge_type = "Assign"
                         /\ At(hyperedges, e).time # NoTime
                         /\ At(hyperedges, e).nodes[1] = a}

\* the Technician nodes assigned to the activity a on the Day node d, over
\* all Assign edges of a
AssignedOn(a, d) ==
    {t \in Handles : /\ At(nodes, t).kind = "Technician"
                     /\ \E e \in AssignEdgesOf(a) :
                           /\ t \in Range(At(hyperedges, e).nodes)
                           /\ d \in Range(At(hyperedges, e).nodes)}

\* C35 as stated: the headcount limit holds for an activity as a whole: after
\* any sequence of successful add_assignment_activity calls, the number of
\* distinct technicians assigned to one activity on one day, summed over all
\* Assign edges of that activity, never exceeds the activity's required
\* headcount.
C35_HeadcountWholeActivity ==
    \A a, d \in Handles :
        (At(nodes, a).kind = "Activity" /\ At(nodes, d).kind = "Day") =>
            Cardinality(AssignedOn(a, d)) <= At(nodes, a).people

\* C35: the headcount limit holds for each call, not for the activity as a
\* whole: a successful add_assignment_activity lists at most as many
\* technicians as the resolved activity requires, and a call that gets to the
\* headcount test with no more technicians than that succeeds whatever the
\* earlier Assign edges of the activity hold.
C35_HeadcountPerCall ==
    [][ Calls("add_assignment_activity") =>
          LET technicians == last'.args[1]
              activities == ActivitiesOf(last'.args[2], last'.args[3])
          IN /\ IsOk(last'.res) =>
                   /\ activities # {}
                   /\ At(hyperedges', last'.res.val).nodes[1] = Min(activities)
                   /\ Len(technicians) <= At(nodes, Min(activities)).people
             /\ (ReachesActivity(technicians, last'.args[4]) /\ activities # {}
                    /\ Len(technicians) <= At(nodes, Min(activities)).people)
                 => IsOk(last'.res)
      ]_vars

\* a second technician has been assigned, in a call of its own, to an
\* activity of one person on a day on which the activity already has one
C35_Witness ==
    /\ last.op = "add_assignment_activity"
    /\ IsOk(last.res)
    /\ LET a == At(hyperedges, last.res.val).nodes[1]
       IN /\ At(nodes, a).people = 1
          /\ Cardinality(AssignEdgesOf(a)) = 2
          /\ \E d \in Handles : At(nodes, d).kind = "Day" /\ Cardinality(AssignedOn(a, d)) = 2

\* C36: activity resolution is unambiguous: for any work order accepted by
\* WorkOrder::new and added with add_work_order, no two Activity nodes joined
\* to that work order by Contains edges have the same activity number.
C36_ActivityNumbersUnique ==
    [][ ( /\ Calls("add_work_order")
          /\ IsOk(last'.res)
          /\ IsOk(WorkOrder_new(U64(last'.args[1].work_order_number),
                                last'.args[1].basic_start_date,
                                last'.args[1].activities)) ) =>
          LET joined == {a \in 0..(Len(nodes') - 1) :
                            /\ At(nodes', a).kind = "Activity"
                            /\ \E e \in 1..Len(hyperedges') :
                                  /\ hyperedges'[e].edge_type = "Contains"
                                  /\ hyperedges'[e].nodes = <<last'.res.val, a>>}
          IN \A a, b \in joined : a # b => At(nodes', a).key # At(nodes', b).key
      ]_vars

\* (activity_number, number_of_people, skill) of an activity
SortKey(activity) == <<activity.activity_number, activity.number_of_people, activity.skill>>

\* x comes strictly before y in the lexicographic order of triples
LexBefore(x, y) == \E k \in 1..3 : x[k] < y[k] /\ \A j \in 1..(k - 1) : x[j] = y[j]

\* the limbs of a number between 1,000,000,000 and 9,999,999,999
TenDigits(work_order_number) == work_order_number[1] \in 1..9

NonDecreasing(activities) ==
    \A i \in 1..(Len(activities) - 1) :
        ~LexBefore(SortKey(activities[i + 1]), SortKey(activities[i]))

HasIdentical(activities) ==
    \E i, j \in 1..Len(activities) : i # j /\ activities[i] = activities[j]

\* C37: WorkOrder::new checks, in this order, that the work-order number has
\* exactly 10 decimal digits (else InvalidWorkOrderNumber), that the activity
\* list is sorted in non-decreasing order of (activity_number,
\* number_of_people, skill) (else NonSortedActivities), and that no two
\* activities are identical (else DuplicatedActivities); it succeeds exactly
\* when all three hold, so an accepted list is strictly increasing in that
\* order.
C37_WorkOrderNewChecks ==
    [][ (last.op = "idle" /\ last'.op = "WorkOrder::new") =>
          LET work_order_number == last'.args[1]
              activities == last'.args[3]
          IN /\ ~TenDigits(work_order_number) => IsErr(last'.res, "InvalidWorkOrderNumber")
             /\ (TenDigits(work_order_number) /\ ~NonDecreasing(activities)) =>
                   IsErr(last'.res, "NonSortedActivities")
             /\ (TenDigits(work_order_number) /\ NonDecreasing(activities)
                    /\ HasIdentical(activities)) =>
                   IsErr(last'.res, "DuplicatedActivities")
             /\ IsOk(last'.res) <=> /\ TenDigits(work_order_number)
                                    /\ NonDecreasing(activities)
                                    /\ ~HasIdentical(activities)
             /\ IsOk(last'.res) =>
                   \A i, j \in 1..Len(activities) :
                       i < j => LexBefore(SortKey(activities[i]), SortKey(activities[j]))
      ]_vars

\* a number of 11 digits was refused although the list is neither sorted nor
\* free of repeats
C37_Witness ==
    /\ last.op = "WorkOrder::new"
    /\ IsErr(last.res, "InvalidWorkOrderNumber")
    /\ to_string_len(last.args[1]) = 11
    /\ ~NonDecreasing(last.args[3])
    /\ HasIdentical(last.args[3])

\* an unsorted list with a repeated activity was refused as unsorted
C37_WitnessUnsortedRepeat ==
    /\ last.op = "WorkOrder::new"
    /\ IsErr(last.res, "NonSortedActivities")
    /\ HasIdentical(last.args[3])

\* a sorted list with a repeated activity was refused as duplicated
C37_WitnessDuplicated ==
    /\ last.op = "WorkOrder::new"
    /\ IsErr(last.res, "DuplicatedActivities")
    /\ Len(last.args[3]) = 3

\* three activities, two of them with the same number, were accepted
C37_WitnessAccepted ==
    /\ last.op = "WorkOrder::new"
    /\ IsOk(last.res)
    /\ Len(last.args[3]) = 3
    /\ last.args[3][1].activity_number = last.args[3][2].activity_number

\* the two windows overlap: a.start < b.end and b.start < a.end
Overlap(a, b) == a[1] < b[2] /\ b[1] < a[2]

\* C38: after any sequence of successful TechnicianBuilder::add_availability
\* calls, the builder's availabilities are pairwise non-overlapping under
\* overlaps_with (a.start < b.end and b.start < a.end); a call whose window
\* overlaps an already stored window returns OverlappingAvailability naming
\* the new and the existing window, and a call whose window overlaps none,
\* such as one that only touches a stored window at an endpoint, is accepted
\* and its window stored.
C38_NonOverlappingAvailabilities ==
    /\ [](\A a, b \in availabilities : a # b => ~Overlap(a, b))
    /\ [][ (last.op = "idle" /\ last'.op = "add_availability") =>
             LET new_window == <<last'.args[1], last'.args[2]>>
                 overlapped == {x \in availabilities : Overlap(new_window, x)}
             IN /\ overlapped # {} =>
                      /\ IsErr(last'.res, "OverlappingAvailability")
                      /\ Len(last'.res.list) = 4
                      /\ <<last'.res.list[1], last'.res.list[2]>> = new_window
                      /\ <<last'.res.list[3], last'.res.list[4]>> \in overlapped
                /\ overlapped = {} =>
                      /\ IsOk(last'.res)
                      /\ availabilities' = availabilities \cup {new_window}
         ]_vars

\* two windows that touch at an endpoint are both stored, the later one
\* added first
C38_Witness ==
    /\ last.op = "add_availability"
    /\ IsOk(last.res)
    /\ <<last.args[1], last.args[2]>> = <<0, 1>>
    /\ {<<0, 1>>, <<1, 3>>} \subseteq availabilities
    /\ Cardinality(availabilities) = 2

\* a window that overlaps two stored windows was refused, the fault naming
\* the stored window that starts first
C38_WitnessOverlap ==
    /\ last.op = "add_availability"
    /\ IsErr(last.res, "OverlappingAvailability")
    /\ last.res.list = <<0, 3, 0, 1>>

====
